---- MODULE Spec2Model ----
(***************************************************************************)
(* Commission calculator and invoice store of the commission-clarity app.  *)
(*                                                                         *)
(* Money: amounts are whole currency units.  A commission is carried in    *)
(* hundredths of a unit, so that  amount * (percentage / 100)  is the      *)
(* integer  amount * percentage  (percentages are whole numbers here; the  *)
(* rounding of IEEE doubles is outside this model).                        *)
(*                                                                         *)
(* An NCF is the fixed prefix B01000 followed by a 4-digit suffix; the     *)
(* flows below only ever vary the suffix, so an NCF is represented by the  *)
(* number its suffix spells.                                               *)
(***************************************************************************)
EXTENDS Integers, Sequences, FiniteSets, TLC

\* ------------------------------------------------------------------ bounds
MaxProcs == 2          \* operations in flight at once
MaxInvoices == 2       \* invoices ever created
MaxProducts == 2       \* categories ever configured
MaxNcf == 2            \* distinct NCF suffixes in play
MaxStoreProducts == 1  \* categories configured while invoices are stored
MaxFrozenInvoices == 1 \* invoices created while categories are reconfigured
MaxSellers == 3        \* sellers ever created
MaxStoredSellers == 2  \* sellers in the table when the application starts
MaxErrorInvoices == 1  \* invoices created while sellers are managed
MaxErrorSellers == 2   \* sellers added while invoices are managed
MaxItems == 2          \* line items of one invoice when a delete of them failed

Procs == 1..MaxProcs
ProductIds == 1..MaxProducts
NCFs == 1..MaxNcf
Names == {"A", "B"}
Percentages == {10, 15, 20}
RestPercentages == {0, 25}
\* what the user types in the calculator screen
CalcTotals == {0, 500, 1000}
CalcAmounts == {0, 200, 300, 500}
\* what the user has typed when an invoice is saved or edited
Totals == {1, 2}
Amounts == {0, 1, 2}
EditTotals == {0, 1, 2}
EditAmounts == {-1, 0, 1, 2}
StorePercentages == {10, 20}

VARIABLES
    products,        \* useProducts().products: the configured categories, in order
    nextProductId,   \* identifiers handed to new categories
    restPercentage,  \* useSettings().restPercentage
    totalInvoice,    \* Index: useState(0)
    productAmounts,  \* Index: useState({}), category id -> allocated amount
    dbInvoices,      \* table invoices: id -> row
    dbItems,         \* table invoice_products: invoice id -> its rows, oldest first
    nextId,          \* next invoice id / creation instant
    invoices,        \* useInvoices: useState([]), the in-memory list
    toast,           \* the last notification shown (sonner)
    pc,              \* where each in-flight operation stands
    op,              \* its arguments, locals and outcome
    frozen,          \* history: invoice id -> the (name, percentage) pairs it was created with
    dbSellers,       \* table sellers: id -> row
    nextSellerId,    \* next seller id / creation instant
    sellers,         \* useSellers: useState([]), the in-memory list
    activeSeller,    \* useSellers: useState(null), the selected seller
    spc,             \* where each in-flight seller operation stands
    sop,             \* its arguments and the state its closure captured
    today,           \* new Date() of the reports' renders, as local calendar fields
    reportInvoices,  \* the invoices prop of MonthlyBreakdown and Statistics
    selectedMonth,   \* MonthlyBreakdown: useState(getMonthKey(now))
    selectedDate,    \* Statistics: useState(new Date())
    ncfSuffix,       \* CalculatorView: useState(''), the NCF suffix field, a text
    step1Complete,   \* CalculatorView: useState(false)
    lastNcfNumber,   \* useSettings: the persisted last used NCF number
    saveCall,        \* the calls of Index.handleSaveInvoice that await saveInvoice
    saveDialog,      \* SaveInvoiceDialog: open, ncfSuffix
    dialog,          \* EditInvoiceDialog: open, invoice, ncfSuffix, totalAmount, products
    entry            \* the input event handled last: its field and e.target.value

calcVars == <<totalInvoice, productAmounts>>
cfgVars == <<products, nextProductId, restPercentage>>
storeVars == <<dbInvoices, dbItems, nextId, frozen>>
uiVars == <<invoices, toast, pc, op>>
sellerVars == <<dbSellers, nextSellerId, sellers, activeSeller, spc, sop>>
reportVars == <<today, reportInvoices, selectedMonth, selectedDate>>
formVars == <<ncfSuffix, step1Complete, lastNcfNumber, saveCall, saveDialog, dialog, entry>>
otherVars == <<sellerVars, reportVars, formVars>>
vars == <<products, nextProductId, restPercentage, totalInvoice, productAmounts,
          dbInvoices, dbItems, nextId, frozen, invoices, toast, pc, op,
          dbSellers, nextSellerId, sellers, activeSeller, spc, sop,
          today, reportInvoices, selectedMonth, selectedDate,
          ncfSuffix, step1Complete, lastNcfNumber, saveCall, saveDialog, dialog, entry>>

\* ----------------------------------------------------------------- helpers
Max(a, b) == IF a >= b THEN a ELSE b

RECURSIVE SumSeq(_, _)
\* reduce((sum, x) => sum + F(x), 0) over a sequence
SumSeq(F(_), s) == IF s = <<>> THEN 0 ELSE F(Head(s)) + SumSeq(F, Tail(s))

RECURSIVE SumFn(_, _)
\* Object.values(f).reduce((sum, amount) => sum + amount, 0) over the keys in d
SumFn(f, d) ==
    IF d = {} THEN 0
    ELSE LET k == CHOOSE x \in d : TRUE IN f[k] + SumFn(f, d \ {k})

RECURSIVE SelectSeqBy(_, _)
SelectSeqBy(T(_), s) ==
    IF s = <<>> THEN <<>>
    ELSE IF T(Head(s)) THEN <<Head(s)>> \o SelectSeqBy(T, Tail(s))
    ELSE SelectSeqBy(T, Tail(s))

MapSeq(F(_), s) == [i \in 1..Len(s) |-> F(s[i])]
Range(s) == {s[i] : i \in 1..Len(s)}
ProductIdsOf(ps) == {ps[i].id : i \in 1..Len(ps)}

AmountOf(x) == x.amount
CommissionOf(x) == x.commission

\* ------------------------------------------------------- commission calculator
\* productAmounts[product.id] || 0
AmountFor(amts, id) == IF id \in DOMAIN amts THEN amts[id] ELSE 0

\* a calculator that forgets the clamp
RestAmountNoClamp(total, special) == total - special
\* Math.max(0, totalInvoice - specialProductsTotal)
RestAmount(total, special) == Max(0, total - special)

\* a calculator that forgets the division by 100
LineCommissionNoDiv(amount, percentage) == amount * percentage * 100
\* amount * (percentage / 100), in hundredths
LineCommission(amount, percentage) == amount * percentage

\* the useMemo of Index: a pure function of its four inputs
Calculations(total, amts, prods, restPct) ==
    LET breakdown == [i \in 1..Len(prods) |->
            [name |-> prods[i].name,
             amount |-> AmountFor(amts, prods[i].id),
             percentage |-> prods[i].percentage,
             commission |-> LineCommission(AmountFor(amts, prods[i].id),
                                           prods[i].percentage)]]
        specialProductsTotal == SumFn(amts, DOMAIN amts)
        restAmount == RestAmount(total, specialProductsTotal)
        restCommission == LineCommission(restAmount, restPct)
    IN  [breakdown |-> breakdown,
         restAmount |-> restAmount,
         restCommission |-> restCommission,
         totalCommission |-> SumSeq(CommissionOf, breakdown) + restCommission]

calculations == Calculations(totalInvoice, productAmounts, products, restPercentage)

\* ------------------------------------------------------ calculator screen
\* CalculatorView.handleTotalChange: a digits-only entry becomes the total
HandleTotalChange(v) ==
    /\ totalInvoice' = v
    /\ UNCHANGED <<productAmounts, cfgVars, storeVars, uiVars, otherVars>>

\* Index.handleProductChange, reached from the amount field of a configured category
HandleProductChange(id, v) ==
    /\ id \in ProductIdsOf(products)
    /\ productAmounts' = [k \in DOMAIN productAmounts \cup {id} |->
                              IF k = id THEN v ELSE productAmounts[k]]
    /\ UNCHANGED <<totalInvoice, cfgVars, storeVars, uiVars, otherVars>>

\* Index.handleReset
HandleReset ==
    /\ totalInvoice' = 0
    /\ productAmounts' = [k \in ProductIdsOf(products) |-> 0]
    /\ UNCHANGED <<cfgVars, storeVars, uiVars, otherVars>>

\* the effect on [products]: every configured category gets an entry
InitAmountsEffect ==
    /\ Len(products) > 0
    /\ ProductIdsOf(products) \ DOMAIN productAmounts # {}
    /\ productAmounts' = [k \in DOMAIN productAmounts \cup ProductIdsOf(products) |->
                              IF k \in DOMAIN productAmounts THEN productAmounts[k] ELSE 0]
    /\ UNCHANGED <<totalInvoice, cfgVars, storeVars, uiVars, otherVars>>

\* ------------------------------------------------- category configuration
AddProduct(name, percentage) ==
    /\ nextProductId <= MaxProducts
    /\ products' = Append(products,
                          [id |-> nextProductId, name |-> name, percentage |-> percentage])
    /\ nextProductId' = nextProductId + 1
    /\ UNCHANGED <<restPercentage, calcVars, storeVars, uiVars, otherVars>>

UpdateProduct(id, name, percentage) ==
    /\ id \in ProductIdsOf(products)
    /\ products' = [i \in 1..Len(products) |->
                        IF products[i].id = id
                        THEN [id |-> id, name |-> name, percentage |-> percentage]
                        ELSE products[i]]
    /\ products' # products
    /\ UNCHANGED <<nextProductId, restPercentage, calcVars, storeVars, uiVars, otherVars>>

DeleteProduct(id) ==
    /\ id \in ProductIdsOf(products)
    /\ products' = SelectSeqBy(LAMBDA p : p.id # id, products)
    /\ UNCHANGED <<nextProductId, restPercentage, calcVars, storeVars, uiVars, otherVars>>

UpdateRestPercentage(v) ==
    /\ v # restPercentage
    /\ restPercentage' = v
    /\ UNCHANGED <<products, nextProductId, calcVars, storeVars, uiVars, otherVars>>

\* ------------------------------------------------------------ invoice store
Header(ncf, total, rest, restPct, restCommission, totalCommission) ==
    [ncf |-> ncf, total_amount |-> total, rest_amount |-> rest,
     rest_percentage |-> restPct, rest_commission |-> restCommission,
     total_commission |-> totalCommission]

Row(id, h, at) ==
    [id |-> id, ncf |-> h.ncf, total_amount |-> h.total_amount,
     rest_amount |-> h.rest_amount, rest_percentage |-> h.rest_percentage,
     rest_commission |-> h.rest_commission, total_commission |-> h.total_commission,
     created_at |-> at]

IdleOp == [kind |-> "none", id |-> 0, hdr |-> Header(0, 0, 0, 0, 0, 0),
           products |-> <<>>, result |-> "none", snap |-> <<>>]

Put(f, k, v) == [x \in DOMAIN f \cup {k} |-> IF x = k THEN v ELSE f[x]]
Drop(f, k) == [x \in DOMAIN f \ {k} |-> f[x]]

\* a uniqueness check that forgets to look
ExistingNcfNever(ncf) == FALSE
\* .from('invoices').select('id').eq('ncf', ncf).maybeSingle()
ExistingNcf(ncf) == \E k \in DOMAIN dbInvoices : dbInvoices[k].ncf = ncf

\* a uniqueness check that forgets .neq('id', id)
ExistingNcfAny(ncf, id) == \E k \in DOMAIN dbInvoices : dbInvoices[k].ncf = ncf
\* .from('invoices').select('id').eq('ncf', ncf).neq('id', id).maybeSingle()
ExistingNcfOther(ncf, id) ==
    \E k \in DOMAIN dbInvoices : k # id /\ dbInvoices[k].ncf = ncf

\* a table without the constraint
NcfUniqueOff(ncf, id) == TRUE
\* invoices.ncf UNIQUE: the write of ncf into row id is accepted
NcfUnique(ncf, id) ==
    \A k \in DOMAIN dbInvoices : k # id => dbInvoices[k].ncf # ncf

\* products.filter(p => p.amount > 0).map(p => ({ invoice_id, product_name, ... }))
ProductInserts(ps) == SelectSeqBy(LAMBDA x : x.amount > 0, ps)

RECURSIVE NewestFirst(_)
\* .order('created_at', { ascending: false }) over a set of rows
NewestFirst(rows) ==
    IF rows = {} THEN <<>>
    ELSE LET r == CHOOSE x \in rows : \A y \in rows : y.created_at <= x.created_at
         IN  <<r>> \o NewestFirst(rows \ {r})

WithProducts(r, ps) ==
    [id |-> r.id, ncf |-> r.ncf, total_amount |-> r.total_amount,
     rest_amount |-> r.rest_amount, rest_percentage |-> r.rest_percentage,
     rest_commission |-> r.rest_commission, total_commission |-> r.total_commission,
     created_at |-> r.created_at, products |-> ps]

\* the operation is over: it shows notification t (or leaves the last one) and its
\* promise settles; nothing of it stays behind
Finish(p, t) ==
    /\ pc' = [pc EXCEPT ![p] = "idle"]
    /\ op' = [op EXCEPT ![p] = IdleOp]
    /\ toast' = t

\* the operation moves on to its next store call
Goto(p, label) ==
    /\ pc' = [pc EXCEPT ![p] = label]
    /\ op' = op
    /\ toast' = toast

\* Every store call takes `ok`: whether the call came back without a transport
\* or backend error.  A call that violates a constraint fails whatever `ok` is.

\* ---------------------------------------------------------- fetchInvoices
\* refetch / the mount effect
FetchInvoices(p) ==
    /\ pc[p] = "idle"
    /\ pc' = [pc EXCEPT ![p] = "f_query"]
    /\ op' = [op EXCEPT ![p] = [IdleOp EXCEPT !.kind = "fetch"]]
    /\ UNCHANGED <<otherVars, cfgVars, calcVars, storeVars, invoices, toast>>

\* the list query; on an error the list in memory is left alone
FetchQuery(p, ok) ==
    /\ pc[p] = "f_query"
    /\ IF ok
       THEN /\ pc' = [pc EXCEPT ![p] = "f_products"]
            /\ op' = [op EXCEPT ![p].snap =
                          NewestFirst({dbInvoices[k] : k \in DOMAIN dbInvoices})]
            /\ toast' = toast
       ELSE Finish(p, "load_error")
    /\ UNCHANGED <<otherVars, cfgVars, calcVars, storeVars, invoices>>

\* the per-invoice line-item queries (a failed one yields products: []) and setInvoices
FetchProducts(p, failed) ==
    /\ pc[p] = "f_products"
    /\ failed \subseteq {op[p].snap[i].id : i \in 1..Len(op[p].snap)}
    /\ invoices' = [i \in 1..Len(op[p].snap) |->
                         LET r == op[p].snap[i]
                         IN  WithProducts(r, IF r.id \in failed \/ r.id \notin DOMAIN dbItems
                                             THEN <<>> ELSE dbItems[r.id])]
    /\ Finish(p, toast)
    /\ UNCHANGED <<otherVars, cfgVars, calcVars, storeVars>>

\* ------------------------------------------------------------ saveInvoice
\* the saves that have not yet inserted their invoice row
Creating == Cardinality({q \in Procs : pc[q] \in {"s_check", "s_insert"}})

\* Index.handleSaveInvoice up to the call of saveInvoice, on the calculator's
\* total, allocations, categories and rest percentage; at most `cap` invoices
\* are ever created
StartSave(p, ncf, total, amts, prods, restPct, cap) ==
    LET c == Calculations(total, amts, prods, restPct)
    IN  /\ pc[p] = "idle"
        /\ total > 0
        /\ nextId + Creating <= cap
        /\ pc' = [pc EXCEPT ![p] = "s_check"]
        /\ op' = [op EXCEPT ![p] =
                    [IdleOp EXCEPT !.kind = "save",
                                   !.hdr = Header(ncf, total, c.restAmount, restPct,
                                                  c.restCommission, c.totalCommission),
                                   !.products = c.breakdown]]
        /\ UNCHANGED <<otherVars, cfgVars, calcVars, storeVars, invoices, toast>>

\* the existence check; an error of the query leaves `existing` empty
SaveCheck(p, ok) ==
    /\ pc[p] = "s_check"
    /\ IF ok /\ ExistingNcf(op[p].hdr.ncf)
       THEN Finish(p, "duplicate_ncf")
       ELSE Goto(p, "s_insert")
    /\ UNCHANGED <<otherVars, cfgVars, calcVars, storeVars, invoices>>

\* what follows the line items: toast.success, fetchInvoices(), return invoice
Saved(p, id, t) ==
    /\ pc' = [pc EXCEPT ![p] = "f_query"]
    /\ op' = [op EXCEPT ![p].id = id, ![p].result = "ok"]
    /\ toast' = t

NamePercentage(x) == <<x.name, x.percentage>>

\* the insert of the invoice row
SaveInsert(p, ok) ==
    /\ pc[p] = "s_insert"
    /\ IF ok /\ NcfUnique(op[p].hdr.ncf, nextId)
       THEN /\ dbInvoices' = Put(dbInvoices, nextId, Row(nextId, op[p].hdr, nextId))
            /\ dbItems' = Put(dbItems, nextId, <<>>)
            /\ frozen' = Put(frozen, nextId,
                             {NamePercentage(x) : x \in Range(ProductInserts(op[p].products))})
            /\ nextId' = nextId + 1
            /\ IF ProductInserts(op[p].products) # <<>>
               THEN /\ pc' = [pc EXCEPT ![p] = "s_items"]
                    /\ op' = [op EXCEPT ![p].id = nextId]
                    /\ toast' = toast
               ELSE Saved(p, nextId, "saved")
       ELSE /\ Finish(p, "save_error")
            /\ UNCHANGED storeVars
    /\ UNCHANGED <<otherVars, cfgVars, calcVars, invoices>>

\* the insert of the line items; its error is only logged
SaveItems(p, ok) ==
    /\ pc[p] = "s_items"
    /\ IF ok /\ op[p].id \in DOMAIN dbInvoices
       THEN dbItems' = [dbItems EXCEPT ![op[p].id] = @ \o ProductInserts(op[p].products)]
       ELSE dbItems' = dbItems
    /\ Saved(p, op[p].id, "saved")
    /\ UNCHANGED <<otherVars, cfgVars, calcVars, dbInvoices, nextId, frozen, invoices>>

\* ---------------------------------------------------------- deleteInvoice
DeleteInvoice(p, i) ==
    /\ pc[p] = "idle"
    /\ i \in 1..Len(invoices)
    /\ pc' = [pc EXCEPT ![p] = "d_delete"]
    /\ op' = [op EXCEPT ![p] =
                [IdleOp EXCEPT !.kind = "delete", !.id = invoices[i].id,
                               !.snap = invoices]]
    /\ UNCHANGED <<otherVars, cfgVars, calcVars, storeVars, invoices, toast>>

\* the delete of the row (its line items go with it), then
\* setInvoices(invoices.filter(i => i.id !== id)) on the list the handler closed over
DeleteRow(p, ok) ==
    /\ pc[p] = "d_delete"
    /\ IF ok
       THEN /\ dbInvoices' = Drop(dbInvoices, op[p].id)
            /\ dbItems' = Drop(dbItems, op[p].id)
            /\ frozen' = Drop(frozen, op[p].id)
            /\ invoices' = SelectSeqBy(LAMBDA x : x.id # op[p].id, op[p].snap)
            /\ Finish(p, "deleted")
       ELSE /\ UNCHANGED <<dbInvoices, dbItems, frozen, invoices>>
            /\ Finish(p, "delete_error")
    /\ UNCHANGED <<otherVars, cfgVars, calcVars, nextId>>

\* ------------------------------------------------------ EditInvoiceDialog
\* useState(invoice.rest_percentage || 25)
EditRestPercentage(inv) == IF inv.rest_percentage = 0 THEN 25 ELSE inv.rest_percentage

\* an edit that takes the percentage from the category as configured now
EditedCommissionLive(item, amount) ==
    LET live == {products[i].percentage : i \in {k \in 1..Len(products) :
                                                   products[k].name = item.name}}
    IN  IF live = {} THEN LineCommission(amount, item.percentage)
        ELSE LineCommission(amount, CHOOSE q \in live : TRUE)
\* handleProductAmountChange: numValue * (newProducts[index].percentage / 100)
EditedCommission(item, amount) == LineCommission(amount, item.percentage)

\* the dialog's line items: those loaded from the invoice, the touched ones re-entered
EditedProducts(inv, touched, amts) ==
    [k \in 1..Len(inv.products) |->
        LET item == inv.products[k]
        IN  IF k \in touched
            THEN [name |-> item.name, amount |-> amts[k],
                  percentage |-> item.percentage,
                  commission |-> EditedCommission(item, amts[k])]
            ELSE [name |-> item.name, amount |-> item.amount,
                  percentage |-> item.percentage, commission |-> item.commission]]

\* handleSubmit: the arguments handed to updateInvoice
EditHeader(ncf, total, prods, restPct) ==
    LET productsTotal == SumSeq(AmountOf, prods)
        productsCommission == SumSeq(CommissionOf, prods)
        restAmount == total - productsTotal
        restCommission == LineCommission(restAmount, restPct)
    IN  Header(ncf, total, restAmount, restPct, restCommission,
               productsCommission + restCommission)

\* the dialog opened on invoice i of the list, fields edited, submitted
EditSubmit(p, i, ncf, total, touched, amts) ==
    /\ pc[p] = "idle"
    /\ i \in 1..Len(invoices)
    /\ touched \subseteq 1..Len(invoices[i].products)
    /\ LET inv == invoices[i]
           prods == EditedProducts(inv, touched, amts)
       IN  op' = [op EXCEPT ![p] =
                    [IdleOp EXCEPT !.kind = "update", !.id = inv.id,
                                   !.hdr = EditHeader(ncf, total, prods,
                                                      EditRestPercentage(inv)),
                                   !.products = prods]]
    /\ pc' = [pc EXCEPT ![p] = "u_check"]
    /\ UNCHANGED <<otherVars, cfgVars, calcVars, storeVars, invoices, toast>>

\* ---------------------------------------------------------- updateInvoice
\* the existence check among the other invoices
UpdateCheck(p, ok) ==
    /\ pc[p] = "u_check"
    /\ IF ok /\ ExistingNcfOther(op[p].hdr.ncf, op[p].id)
       THEN Finish(p, "duplicate_ncf")
       ELSE Goto(p, "u_header")
    /\ UNCHANGED <<otherVars, cfgVars, calcVars, storeVars, invoices>>

\* an update that goes on to the line items whatever became of the header
UpdateHeaderUnchecked(p, ok) ==
    /\ pc[p] = "u_header"
    /\ IF /\ ok
          /\ op[p].id \in DOMAIN dbInvoices
          /\ NcfUnique(op[p].hdr.ncf, op[p].id)
       THEN dbInvoices' = [dbInvoices EXCEPT ![op[p].id] =
                              Row(op[p].id, op[p].hdr, @.created_at)]
       ELSE dbInvoices' = dbInvoices
    /\ Goto(p, "u_delete")
    /\ UNCHANGED <<otherVars, cfgVars, calcVars, dbItems, nextId, frozen, invoices>>

\* the update of the row; .single() fails when no row has the id
UpdateHeader(p, ok) ==
    /\ pc[p] = "u_header"
    /\ IF /\ ok
          /\ op[p].id \in DOMAIN dbInvoices
          /\ NcfUnique(op[p].hdr.ncf, op[p].id)
       THEN /\ dbInvoices' = [dbInvoices EXCEPT ![op[p].id] =
                                 Row(op[p].id, op[p].hdr, @.created_at)]
            /\ Goto(p, "u_delete")
       ELSE /\ Finish(p, "update_error")
            /\ dbInvoices' = dbInvoices
    /\ UNCHANGED <<otherVars, cfgVars, calcVars, dbItems, nextId, frozen, invoices>>

\* the delete of the old line items; its outcome is not looked at
UpdateDeleteItems(p, ok) ==
    /\ pc[p] = "u_delete"
    /\ IF ok
       THEN dbItems' = [k \in DOMAIN dbItems |-> IF k = op[p].id THEN <<>> ELSE dbItems[k]]
       ELSE /\ op[p].id \in DOMAIN dbItems =>
                 Len(dbItems[op[p].id]) + Len(ProductInserts(op[p].products)) <= MaxItems
            /\ dbItems' = dbItems
    /\ IF ProductInserts(op[p].products) # <<>>
       THEN Goto(p, "u_items")
       ELSE Saved(p, op[p].id, "updated")
    /\ UNCHANGED <<otherVars, cfgVars, calcVars, dbInvoices, nextId, frozen, invoices>>

\* the insert of the new line items; its error is only logged
UpdateInsertItems(p, ok) ==
    /\ pc[p] = "u_items"
    /\ IF ok /\ op[p].id \in DOMAIN dbInvoices
       THEN dbItems' = [dbItems EXCEPT ![op[p].id] = @ \o ProductInserts(op[p].products)]
       ELSE dbItems' = dbItems
    /\ Saved(p, op[p].id, "updated")
    /\ UNCHANGED <<otherVars, cfgVars, calcVars, dbInvoices, nextId, frozen, invoices>>

\* ------------------------------------------------------------- useSellers
\* no seller: activeSeller === null, find() === undefined
NoSeller == [id |-> 0, name |-> "", is_active |-> FALSE, created_at |-> 0]
SellerRow(id, name, active) ==
    [id |-> id, name |-> name, is_active |-> active, created_at |-> id]
\* the name of the seller created when the table is empty
DefaultSellerName == "Neftali Jimenez"

\* updates: Partial<Seller>, one field at a time
NoUpdates == [field |-> "none", name |-> "", is_active |-> FALSE]
NameUpdate(n) == [field |-> "name", name |-> n, is_active |-> FALSE]
ActiveUpdate(b) == [field |-> "is_active", name |-> "", is_active |-> b]
\* { ...s, ...updates }
ApplyUpdates(s, u) ==
    IF u.field = "name" THEN [s EXCEPT !.name = u.name]
    ELSE IF u.field = "is_active" THEN [s EXCEPT !.is_active = u.is_active]
    ELSE s

IdleSellerOp ==
    [kind |-> "none", id |-> 0, name |-> "", updates |-> NoUpdates,
     list |-> <<>>, active |-> NoSeller]

\* a call whose error is never looked at
StoreErrorIgnored(ok) == FALSE
\* const { error } = await ...: set exactly when the store call failed
StoreError(ok) == ~ok

RECURSIVE OldestFirst(_)
\* .order('created_at', { ascending: true })
OldestFirst(rows) ==
    IF rows = {} THEN <<>>
    ELSE LET r == CHOOSE x \in rows : \A y \in rows : x.created_at <= y.created_at
         IN  <<r>> \o OldestFirst(rows \ {r})

\* the first seller of the list, active or not
FirstSellerAny(list) == IF list = <<>> THEN NoSeller ELSE list[1]
\* list.find(s => s.is_active)
FirstActive(list) ==
    IF \E i \in 1..Len(list) : list[i].is_active
    THEN list[CHOOSE i \in 1..Len(list) :
                 /\ list[i].is_active
                 /\ \A j \in 1..(i - 1) : ~list[j].is_active]
    ELSE NoSeller

\* a filter that drops nothing
SellersWithoutNone(list, id) == list
\* sellers.filter(s => s.id !== id)
SellersWithout(list, id) == SelectSeqBy(LAMBDA x : x.id # id, list)

SellerIds(list) == {list[i].id : i \in 1..Len(list)}

\* the seller operation is over and shows notification t (or leaves the last one)
FinishSeller(p, t) ==
    /\ spc' = [spc EXCEPT ![p] = "idle"]
    /\ sop' = [sop EXCEPT ![p] = IdleSellerOp]
    /\ toast' = t

\* a seller handler is called: it closes over the list and the selection of
\* the render it was created in
CallSeller(p, label, kind, id, name, updates) ==
    /\ spc[p] = "idle"
    /\ spc' = [spc EXCEPT ![p] = label]
    /\ sop' = [sop EXCEPT ![p] = [kind |-> kind, id |-> id, name |-> name,
                                   updates |-> updates, list |-> sellers,
                                   active |-> activeSeller]]
    /\ UNCHANGED <<dbSellers, nextSellerId, sellers, activeSeller, toast>>

invoiceVars == <<cfgVars, calcVars, storeVars, invoices, pc, op, formVars>>

\* fetchSellers: the mount effect, refetch
FetchSellers(p) ==
    /\ CallSeller(p, "fs_query", "fetch", 0, "", NoUpdates)
    /\ UNCHANGED <<invoiceVars, reportVars>>

\* the list query; an empty table leads to the creation of the default seller
FetchSellersQuery(p, ok) ==
    /\ spc[p] = "fs_query"
    /\ IF StoreError(ok)
       THEN /\ FinishSeller(p, "sellers_load_error")
            /\ UNCHANGED <<sellers, activeSeller>>
       ELSE LET data == OldestFirst({dbSellers[k] : k \in DOMAIN dbSellers})
            IN  IF data = <<>>
                THEN /\ spc' = [spc EXCEPT ![p] = "fs_default"]
                     /\ UNCHANGED <<sop, toast, sellers, activeSeller>>
                ELSE /\ sellers' = data
                     /\ activeSeller' =
                           IF sop[p].active = NoSeller /\ FirstActive(data) # NoSeller
                           THEN FirstActive(data) ELSE activeSeller
                     /\ FinishSeller(p, toast)
    /\ UNCHANGED <<dbSellers, nextSellerId, invoiceVars, reportVars>>

\* the insert of the default seller; its error is dropped
FetchSellersDefault(p, ok) ==
    /\ spc[p] = "fs_default"
    /\ IF ok
       THEN LET row == SellerRow(nextSellerId, DefaultSellerName, TRUE)
            IN  /\ nextSellerId <= MaxSellers
                /\ dbSellers' = Put(dbSellers, nextSellerId, row)
                /\ nextSellerId' = nextSellerId + 1
                /\ sellers' = <<row>>
                /\ activeSeller' = row
       ELSE UNCHANGED <<dbSellers, nextSellerId, sellers, activeSeller>>
    /\ FinishSeller(p, toast)
    /\ UNCHANGED <<invoiceVars, reportVars>>

\* the seller inserts that have not come back yet
CreatingSellers == Cardinality({q \in Procs : spc[q] = "as_insert"})

\* addSeller(name); at most `cap` sellers are ever added by hand
AddSeller(p, name, cap) ==
    /\ nextSellerId + CreatingSellers <= cap
    /\ CallSeller(p, "as_insert", "add", 0, name, NoUpdates)
    /\ UNCHANGED <<invoiceVars, reportVars>>

AddSellerInsert(p, ok) ==
    /\ spc[p] = "as_insert"
    /\ IF StoreError(ok)
       THEN /\ FinishSeller(p, "seller_add_error")
            /\ UNCHANGED <<dbSellers, nextSellerId, sellers, activeSeller>>
       ELSE LET data == SellerRow(nextSellerId, sop[p].name, TRUE)
            IN  /\ dbSellers' = Put(dbSellers, nextSellerId, data)
                /\ nextSellerId' = nextSellerId + 1
                /\ sellers' = Append(sop[p].list, data)
                /\ activeSeller' = IF sop[p].active = NoSeller THEN data ELSE activeSeller
                /\ FinishSeller(p, "seller_added")
    /\ UNCHANGED <<invoiceVars, reportVars>>

\* updateSeller(id, updates) on a seller of the list
UpdateSeller(p, id, updates) ==
    /\ id \in SellerIds(sellers)
    /\ CallSeller(p, "us_update", "update", id, "", updates)
    /\ UNCHANGED <<invoiceVars, reportVars>>

UpdateSellerWrite(p, ok) ==
    /\ spc[p] = "us_update"
    /\ IF StoreError(ok)
       THEN /\ FinishSeller(p, "seller_update_error")
            /\ UNCHANGED <<dbSellers, sellers, activeSeller>>
       ELSE /\ dbSellers' = [k \in DOMAIN dbSellers |->
                               IF k = sop[p].id
                               THEN ApplyUpdates(dbSellers[k], sop[p].updates)
                               ELSE dbSellers[k]]
            /\ sellers' = [i \in 1..Len(sop[p].list) |->
                             IF sop[p].list[i].id = sop[p].id
                             THEN ApplyUpdates(sop[p].list[i], sop[p].updates)
                             ELSE sop[p].list[i]]
            /\ activeSeller' = IF sop[p].active.id = sop[p].id
                               THEN ApplyUpdates(sop[p].active, sop[p].updates)
                               ELSE activeSeller
            /\ FinishSeller(p, "seller_updated")
    /\ UNCHANGED <<nextSellerId, invoiceVars, reportVars>>

\* deleteSeller(id) on a seller of the list
DeleteSeller(p, id) ==
    /\ id \in SellerIds(sellers)
    /\ CallSeller(p, "ds_delete", "delete", id, "", NoUpdates)
    /\ UNCHANGED <<invoiceVars, reportVars>>

DeleteSellerRow(p, ok) ==
    /\ spc[p] = "ds_delete"
    /\ IF StoreError(ok)
       THEN /\ FinishSeller(p, "seller_delete_error")
            /\ UNCHANGED <<dbSellers, sellers, activeSeller>>
       ELSE LET newSellers == SellersWithout(sop[p].list, sop[p].id)
            IN  /\ dbSellers' = Drop(dbSellers, sop[p].id)
                /\ sellers' = newSellers
                /\ activeSeller' = IF sop[p].active.id = sop[p].id
                                   THEN FirstActive(newSellers) ELSE activeSeller
                /\ FinishSeller(p, "seller_deleted")
    /\ UNCHANGED <<nextSellerId, invoiceVars, reportVars>>

\* selectSeller, from the selector: one of the active sellers of the list
SelectSeller(id) ==
    /\ \E i \in 1..Len(sellers) :
          /\ sellers[i].id = id
          /\ sellers[i].is_active
          /\ activeSeller' = sellers[i]
    /\ UNCHANGED <<dbSellers, nextSellerId, sellers, spc, sop, toast,
                   invoiceVars, reportVars>>

\* ------------------------------------------------------------------ dates
\* A month is counted from year 0: ym = year * 12 + (month - 1), so that the
\* keys 'yyyy-MM' sort as these numbers do.  A Date is an instant: the number
\* of ticks since the first instant of FirstYm, a day having TicksPerDay ticks,
\* the first one 00:00:00.000 and the last one 23:59:59.999.  Timestamps are
\* read in the browser's time zone; the zone itself is outside this model.
TicksPerDay == 3
Ym(year, month) == year * 12 + (month - 1)
FirstYm == Ym(2023, 6)
LastYm == Ym(2024, 6)
Months == FirstYm..LastYm

IsLeapYear(y) == (y % 4 = 0 /\ y % 100 # 0) \/ y % 400 = 0
DaysInMonth(ym) ==
    LET m == (ym % 12) + 1
    IN  IF m = 2 THEN (IF IsLeapYear(ym \div 12) THEN 29 ELSE 28)
        ELSE IF m \in {4, 6, 9, 11} THEN 30 ELSE 31

RECURSIVE DaysBetween(_, _)
\* the days between the first day of month from and the first day of month ym
DaysBetween(from, ym) ==
    IF ym <= from THEN 0 ELSE DaysBetween(from, ym - 1) + DaysInMonth(ym - 1)
\* the days before each month, counted once
DaysBeforeTable == [ym \in FirstYm..(LastYm + 2) |-> DaysBetween(FirstYm, ym)] @@ <<>>
DaysBefore(ym) == DaysBeforeTable[ym]

\* new Date(year, month - 1, day) at a time of the day
Instant(ym, day, tick) == (DaysBefore(ym) + day - 1) * TicksPerDay + tick

\* the month each day lies in, counted once
MonthOfDayTable ==
    [day \in 0..(DaysBefore(LastYm + 2) - 1) |->
        CHOOSE ym \in FirstYm..(LastYm + 1) :
            DaysBefore(ym) <= day /\ day < DaysBefore(ym) + DaysInMonth(ym)] @@ <<>>
\* date.getFullYear(), date.getMonth(): the month an instant lies in
MonthOf(t) == MonthOfDayTable[t \div TicksPerDay]

\* getMonthKey / format(date, 'yyyy-MM')
getMonthKey(t) == MonthOf(t)
\* const [year, month] = key.split('-').map(Number); new Date(year, month - 1, 1)
MonthDate(key) == Instant(key, 1, 0)

\* date-fns startOfMonth
StartOfMonth(t) == Instant(MonthOf(t), 1, 0)
\* an end of month that stops at the first instant of the last day
EndOfMonthMidnight(t) == Instant(MonthOf(t), DaysInMonth(MonthOf(t)), 0)
\* date-fns endOfMonth: 23:59:59.999 of the last day
EndOfMonth(t) == Instant(MonthOf(t), DaysInMonth(MonthOf(t)), TicksPerDay - 1)
\* date-fns isWithinInterval: both ends belong to the interval
IsWithinInterval(t, start, end) == start <= t /\ t <= end

\* A date string of the store: a date-only 'YYYY-MM-DD' (invoice_date), or a
\* timestamp (created_at) given by its local calendar fields and time of day.
DateOnly(y, m, d) == [date_only |-> TRUE, y |-> y, m |-> m, d |-> d, tick |-> 0]
Timestamp(y, m, d, tick) == [date_only |-> FALSE, y |-> y, m |-> m, d |-> d, tick |-> tick]
\* an invoice_date that is null or empty
NoDate == [date_only |-> FALSE, y |-> 0, m |-> 0, d |-> 0, tick |-> 0]

\* parseInvoiceDate: a date-only string is local midnight of that day, any
\* other string is handed to new Date()
parseInvoiceDate(str) ==
    IF str.date_only THEN Instant(Ym(str.y, str.m), str.d, 0)
    ELSE Instant(Ym(str.y, str.m), str.d, str.tick)

\* inv.invoice_date || inv.created_at
EffectiveDateString(inv) == IF inv.invoice_date = NoDate THEN inv.created_at ELSE inv.invoice_date
EffectiveDate(inv) == parseInvoiceDate(EffectiveDateString(inv))

\* a Date kept as calendar fields: today, the month shown by the statistics
DateOf(d) == Instant(d.ym, d.day, 0)
Min(a, b) == IF a <= b THEN a ELSE b
\* date-fns addMonths / subMonths: the day of the month is kept, or is the
\* last day of the target month when that month is shorter
AddMonths(d, n) == [ym |-> d.ym + n, day |-> Min(d.day, DaysInMonth(d.ym + n))]
SubMonths(d, n) == AddMonths(d, 0 - n)

RECURSIVE SortedDesc(_)
\* Array.from(set).sort().reverse() on month keys
SortedDesc(set) ==
    IF set = {} THEN <<>>
    ELSE LET top == CHOOSE x \in set : \A y \in set : x >= y
         IN  <<top>> \o SortedDesc(set \ {top})

\* ------------------------------------------------------- MonthlyBreakdown
\* the months offered by the selector: the last 4 months and those of the invoices
BreakdownRecentMonths == 4
BreakdownMonths(invs, now) ==
    SortedDesc({getMonthKey(DateOf([ym |-> now.ym - i, day |-> 1])) :
                    i \in 0..(BreakdownRecentMonths - 1)}
               \cup {getMonthKey(EffectiveDate(invs[i])) : i \in 1..Len(invs)})

\* the invoice is dated within the month of key
InSelectedMonth(inv, key) ==
    IsWithinInterval(EffectiveDate(inv),
                     StartOfMonth(MonthDate(key)), EndOfMonth(MonthDate(key)))

\* filteredInvoices
FilteredInvoices(invs, key) == SelectSeqBy(LAMBDA inv : InSelectedMonth(inv, key), invs)

\* ------------------------------------------------------------------ texts
\* A text (an input's e.target.value, an NCF) is the sequence of its characters.
Digits == <<"0", "1", "2", "3", "4", "5", "6", "7", "8", "9">>
IsDigit(c) == \E i \in 1..Len(Digits) : Digits[i] = c
DigitValue(c) == (CHOOSE i \in 1..Len(Digits) : Digits[i] = c) - 1
\* value.replace(/,/g, '')
StripCommas(raw) == SelectSeqBy(LAMBDA c : c # ",", raw)
\* value.replace(/\D/g, '')
StripNonDigits(raw) == SelectSeqBy(IsDigit, raw)
\* str.slice(0, n), str.slice(-n)
SliceFirst(str, n) == SubSeq(str, 1, Min(n, Len(str)))
SliceLast(str, n) == SubSeq(str, Max(1, Len(str) - n + 1), Len(str))
\* /^\d+$/.test(str)
AllDigits(str) == str # <<>> /\ \A i \in 1..Len(str) : IsDigit(str[i])

RECURSIVE DigitsPrefix(_)
\* the digits a text starts with
DigitsPrefix(str) ==
    IF str # <<>> /\ IsDigit(Head(str)) THEN <<Head(str)>> \o DigitsPrefix(Tail(str))
    ELSE <<>>
RECURSIVE DecimalValue(_)
DecimalValue(ds) ==
    IF ds = <<>> THEN 0
    ELSE DecimalValue(SubSeq(ds, 1, Len(ds) - 1)) * 10 + DigitValue(ds[Len(ds)])

\* a JavaScript number that may be NaN
NaN == [nan |-> TRUE, value |-> 0]
Number(v) == [nan |-> FALSE, value |-> v]
\* parseInt(str, 10): an optional sign, then the digits up to the first other
\* character; NaN when there is no digit
ParseInt(str) ==
    LET signed == str # <<>> /\ Head(str) \in {"-", "+"}
        ds == DigitsPrefix(IF signed THEN Tail(str) ELSE str)
    IN  IF ds = <<>> THEN NaN
        ELSE IF signed /\ Head(str) = "-" THEN Number(0 - DecimalValue(ds))
        ELSE Number(DecimalValue(ds))
\* n || 0
OrZero(n) == IF n.nan THEN 0 ELSE n.value

RECURSIVE PadStart(_, _, _)
\* str.padStart(n, c)
PadStart(str, n, c) == IF Len(str) >= n THEN str ELSE PadStart(<<c>> \o str, n, c)
RECURSIVE Decimal(_)
\* String(n) of a non-negative integer
Decimal(n) == IF n < 10 THEN <<Digits[n + 1]>> ELSE Decimal(n \div 10) \o <<Digits[(n % 10) + 1]>>

\* const ncfPrefix = 'B01000'
ncfPrefix == <<"B", "0", "1", "0", "0", "0">>
\* `${ncfPrefix}${ncfSuffix.padStart(4, '0')}`
FullNcf(suffix) == ncfPrefix \o PadStart(suffix, 4, "0")
\* an NCF field that keeps whatever is typed
NcfFieldUnfiltered(raw) == raw
\* e.target.value.replace(/\D/g, '').slice(0, 4)
NcfField(raw) == SliceFirst(StripNonDigits(raw), 4)

\* -------------------------------------------------------- the input forms
NoEntry == [target |-> "none", id |-> 0, raw |-> <<>>]
Entered(target, id, raw) == [target |-> target, id |-> id, raw |-> raw]
IdleSaveCall == [stage |-> "none", from |-> "none", ncf |-> <<>>, products |-> <<>>]
ClosedSaveDialog == [open |-> FALSE, ncfSuffix |-> <<>>]
ClosedDialog ==
    [open |-> FALSE, id |-> 0, ncfSuffix |-> <<>>, totalAmount |-> 0,
     products |-> <<>>, restPercentage |-> 0]

\* the forms as they are mounted, with no NCF used yet
InitForms ==
    /\ ncfSuffix = <<>>
    /\ step1Complete = FALSE
    /\ lastNcfNumber = 0
    /\ saveCall = [p \in Procs |-> IdleSaveCall]
    /\ saveDialog = ClosedSaveDialog
    /\ dialog = ClosedDialog
    /\ entry = NoEntry

\* ------------------------------------------------------------------- Init
\* the calculator, the categories and the invoice store of a fresh installation
InitInvoices ==
    /\ products = <<>>
    /\ nextProductId = 1
    /\ restPercentage = 25
    /\ totalInvoice = 0
    /\ productAmounts = <<>>
    /\ dbInvoices = <<>>
    /\ dbItems = <<>>
    /\ nextId = 1
    /\ invoices = <<>>
    /\ frozen = <<>>
    /\ toast = "none"
    /\ pc = [p \in Procs |-> "idle"]
    /\ op = [p \in Procs |-> IdleOp]
    /\ InitForms

\* useSellers before its mount effect has run
InitSellerHook ==
    /\ sellers = <<>>
    /\ activeSeller = NoSeller
    /\ spc = [p \in Procs |-> "idle"]
    /\ sop = [p \in Procs |-> IdleSellerOp]

\* no seller in the store
InitNoSellers ==
    /\ dbSellers = <<>>
    /\ nextSellerId = 1
    /\ InitSellerHook

\* the reports are not on screen
InitNoReports ==
    /\ today = [ym |-> Ym(2024, 1), day |-> 31]
    /\ reportInvoices = <<>>
    /\ selectedMonth = Ym(2024, 1)
    /\ selectedDate = [ym |-> Ym(2024, 1), day |-> 31]

Init == InitInvoices /\ InitNoSellers /\ InitNoReports

\* ------------------------------------------- the calculator on its own
NextCalc ==
    \/ \E v \in CalcTotals : HandleTotalChange(v)
    \/ \E id \in ProductIds, v \in CalcAmounts : HandleProductChange(id, v)
    \/ HandleReset
    \/ InitAmountsEffect
    \/ \E n \in Names, q \in Percentages : AddProduct(n, q)
    \/ \E id \in ProductIds, n \in Names, q \in Percentages : UpdateProduct(id, n, q)
    \/ \E id \in ProductIds : DeleteProduct(id)
    \/ \E v \in RestPercentages : UpdateRestPercentage(v)

SpecCalc == Init /\ [][NextCalc]_vars

\* ------------------------------------------------ the store and its callers
\* One step of operation slot p.  `in` holds what the user and the store may
\* supply: the calculator's categories, rest percentage, totals and allocations
\* at a save (`live`: the categories and the rest percentage are the configured
\* ones), the edits typed into the dialog, the outcomes of store calls, and how
\* many invoices may be created.
SaveCategories(in) == IF in.live THEN {products} ELSE in.cfgs
SaveRestPercentages(in) == IF in.live THEN {restPercentage} ELSE in.restPcts
SaveAllocations(in) ==
    IF in.live THEN [1..(nextProductId - 1) -> in.amounts] ELSE [{1} -> in.amounts]

StoreStep(p, in) ==
    \/ FetchInvoices(p)
    \/ \E ok \in in.outcomes : FetchQuery(p, ok)
    \/ \E failed \in in.failures : FetchProducts(p, failed)
    \/ \E ncf \in NCFs, total \in in.totals, prods \in SaveCategories(in),
          restPct \in SaveRestPercentages(in), amts \in SaveAllocations(in) :
          StartSave(p, ncf, total, amts, prods, restPct, in.cap)
    \/ \E ok \in in.outcomes : SaveCheck(p, ok)
    \/ \E ok \in in.outcomes : SaveInsert(p, ok)
    \/ \E i \in 1..MaxInvoices : DeleteInvoice(p, i)
    \/ \E ok \in in.outcomes : DeleteRow(p, ok)
    \/ \E i \in 1..MaxInvoices, ncf \in NCFs, total \in in.editTotals,
          touched \in SUBSET in.slots, amts \in [in.slots -> in.editAmounts] :
          EditSubmit(p, i, ncf, total, touched, amts)
    \/ \E ok \in in.outcomes : UpdateCheck(p, ok)
    \/ \E ok \in in.outcomes : UpdateHeader(p, ok)
    \/ \E ok \in in.outcomes : UpdateDeleteItems(p, ok)

ItemStep(p, in) ==
    \/ \E ok \in in.outcomes : SaveItems(p, ok)
    \/ \E ok \in in.outcomes : UpdateInsertItems(p, ok)

CategoryA(q) == <<[id |-> 1, name |-> "A", percentage |-> q]>>

\* One operation at a time, on invoices of one category, store calls may fail.
SeqInputs ==
    [live |-> FALSE, cfgs |-> {CategoryA(10)}, restPcts |-> {25},
     totals |-> {1}, amounts |-> {0, 1},
     editTotals |-> {1}, slots |-> {1}, editAmounts |-> {0, 1},
     outcomes |-> BOOLEAN, failures |-> {{}}, cap |-> MaxInvoices]

Next == StoreStep(1, SeqInputs) \/ ItemStep(1, SeqInputs)

Spec == Init /\ [][Next]_vars

\* Overlapping operations, on invoices without allocations, store calls may fail.
OverlapInputs ==
    [live |-> FALSE, cfgs |-> {<<>>}, restPcts |-> {25},
     totals |-> {1}, amounts |-> {0},
     editTotals |-> {1}, slots |-> {}, editAmounts |-> {},
     outcomes |-> BOOLEAN, failures |-> {{}}, cap |-> MaxInvoices]

NextOverlap == \E p \in Procs : StoreStep(p, OverlapInputs)

SpecOverlap == Init /\ [][NextOverlap]_vars

\* One operation at a time on a store that answers every call, with a fixed
\* category and everything the calculator and the edit dialog let the user type.
ReliableInputs ==
    [live |-> FALSE, cfgs |-> {CategoryA(10)}, restPcts |-> RestPercentages,
     totals |-> Totals, amounts |-> Amounts,
     editTotals |-> EditTotals, slots |-> {1}, editAmounts |-> EditAmounts,
     outcomes |-> {TRUE}, failures |-> {{}}, cap |-> MaxInvoices]

NextReliable == StoreStep(1, ReliableInputs) \/ ItemStep(1, ReliableInputs)

SpecReliable == Init /\ [][NextReliable]_vars

\* One invoice saved and edited while the categories are reconfigured; store
\* calls may fail.
FrozenInputs ==
    [live |-> TRUE, cfgs |-> {}, restPcts |-> {},
     totals |-> {1}, amounts |-> {0, 1},
     editTotals |-> {1}, slots |-> {1}, editAmounts |-> {0, 1, 2},
     outcomes |-> BOOLEAN, failures |-> {{}}, cap |-> MaxFrozenInvoices]

NextFrozen ==
    \/ \E n \in Names, q \in StorePercentages :
          Len(products) < MaxStoreProducts /\ AddProduct(n, q)
    \/ \E n \in Names, q \in StorePercentages : UpdateProduct(1, n, q)
    \/ DeleteProduct(1)
    \/ StoreStep(1, FrozenInputs)
    \/ ItemStep(1, FrozenInputs)

SpecFrozen == Init /\ [][NextFrozen]_vars

\* ------------------------------------------------- claims on the calculator
AllocatedSum == SumFn(productAmounts, DOMAIN productAmounts)

\* the scenario total=500, one category allocated=500 at 15%, rest%=25
ScenarioFullyAllocated ==
    /\ Len(products) = 1 /\ products[1].percentage = 15
    /\ totalInvoice = 500 /\ restPercentage = 25
    /\ DOMAIN productAmounts = {products[1].id}
    /\ productAmounts[products[1].id] = 500

\* C1: for a non-negative total T and allocations summing to S, the rest amount is
\* T - S when S <= T and 0 when S > T; it is never negative.  In the scenario
\* total=500, 500 at 15%, rest%=25: rest 0, rest commission 0, total commission 75.
C1_RestAmount ==
    /\ totalInvoice >= 0
    /\ AllocatedSum <= totalInvoice => calculations.restAmount = totalInvoice - AllocatedSum
    /\ AllocatedSum > totalInvoice => calculations.restAmount = 0
    /\ calculations.restAmount >= 0
    /\ ScenarioFullyAllocated =>
          /\ calculations.restAmount = 0
          /\ calculations.restCommission = 0
          /\ calculations.totalCommission = 7500

\* an over-allocated calculator, and the scenario of C1
C1_Witness_OverAllocated == AllocatedSum > totalInvoice /\ totalInvoice > 0
C1_Witness == ScenarioFullyAllocated

\* the scenario total=1000, A allocated=300 at 10%, B allocated=200 at 20%, rest%=25
ScenarioTwoCategories ==
    /\ Len(products) = 2
    /\ products[1].name = "A" /\ products[1].percentage = 10
    /\ products[2].name = "B" /\ products[2].percentage = 20
    /\ totalInvoice = 1000 /\ restPercentage = 25
    /\ DOMAIN productAmounts = {products[1].id, products[2].id}
    /\ productAmounts[products[1].id] = 300
    /\ productAmounts[products[2].id] = 200

\* C2: the total commission is the sum over the configured categories of
\* amount x percentage / 100 plus rest amount x rest percentage / 100, and each
\* breakdown entry's commission is its amount x percentage / 100 (hundredths here).
C2_TotalCommission ==
    LET c == calculations
        allocated(i) == IF products[i].id \in DOMAIN productAmounts
                        THEN productAmounts[products[i].id] ELSE 0
        RECURSIVE upTo(_)
        upTo(n) == IF n = 0 THEN 0
                   ELSE allocated(n) * products[n].percentage + upTo(n - 1)
    IN  /\ Len(c.breakdown) = Len(products)
        /\ \A i \in 1..Len(products) :
              /\ c.breakdown[i].amount = allocated(i)
              /\ c.breakdown[i].commission * 100
                    = c.breakdown[i].amount * c.breakdown[i].percentage * 100
        /\ c.totalCommission = upTo(Len(products)) + c.restAmount * restPercentage
        /\ ScenarioTwoCategories =>
              /\ c.breakdown[1].commission = 3000
              /\ c.breakdown[2].commission = 4000
              /\ c.restAmount = 500
              /\ c.restCommission = 12500
              /\ c.totalCommission = 19500

C2_Witness == ScenarioTwoCategories
C2_Witness_AllZero ==
    /\ Len(products) = 2 /\ totalInvoice = 0
    /\ \A k \in DOMAIN productAmounts : productAmounts[k] = 0

\* ----------------------------------------------------- claims on the store
\* NCF n is held by a stored invoice other than `id`
HeldByOther(n, id) == \E k \in DOMAIN dbInvoices : k # id /\ dbInvoices[k].ncf = n

\* operation p carries an NCF held by a different stored invoice (a save has no
\* invoice of its own yet: every stored invoice is a different one)
CarriesHeldNcf(p) ==
    \/ op[p].kind = "save" /\ HeldByOther(op[p].hdr.ncf, 0)
    \/ op[p].kind = "update" /\ HeldByOther(op[p].hdr.ncf, op[p].id)

\* all operations are over
Quiescent == \A p \in Procs : pc[p] = "idle"

OwnNcf(p) ==
    /\ op[p].kind = "update"
    /\ op[p].id \in DOMAIN dbInvoices
    /\ dbInvoices[op[p].id].ncf = op[p].hdr.ncf

\* C4: updateInvoice on an invoice with its own, unchanged NCF passes the
\* existence check (the check leaves the invoice itself out), and the header
\* write is accepted when the store answers.
C4_OwnNcfAccepted ==
    [][\A p \in Procs :
          /\ (UpdateCheck(p, TRUE) /\ OwnNcf(p)) => pc'[p] = "u_header"
          /\ (UpdateHeader(p, TRUE) /\ OwnNcf(p)) =>
                /\ pc'[p] \in {"u_delete"}
                /\ dbInvoices'[op[p].id].ncf = op[p].hdr.ncf
                /\ dbInvoices'[op[p].id].total_amount = op[p].hdr.total_amount]_vars

\* an update with the invoice's own NCF is past its existence check, with
\* another invoice in the store
C4_Witness ==
    \E p \in Procs :
        /\ pc[p] = "u_header"
        /\ OwnNcf(p)
        /\ Cardinality(DOMAIN dbInvoices) = 2

\* C5: in every reachable state of the store no two invoices have the same NCF,
\* also while saves and updates overlap.
C5_NcfUnique ==
    \A i, j \in DOMAIN dbInvoices : dbInvoices[i].ncf = dbInvoices[j].ncf => i = j

\* two operations past their existence checks and about to write the same NCF,
\* which a stored invoice already holds
C5_Witness ==
    \E p, q \in Procs :
        /\ p # q
        /\ pc[p] \in {"s_insert", "u_header"} /\ pc[q] \in {"s_insert", "u_header"}
        /\ op[p].hdr.ncf = op[q].hdr.ncf
        /\ CarriesHeldNcf(p) /\ CarriesHeldNcf(q)

\* the line items the store holds for invoice id
StoredItems(id) == IF id \in DOMAIN dbItems THEN dbItems[id] ELSE <<>>

\* C6: once the creations and updates are over, every stored invoice has
\* rest_amount = max(0, total_amount - sum of its stored line-item amounts).
C6_StoredRestAmount ==
    Quiescent =>
        \A id \in DOMAIN dbInvoices :
            dbInvoices[id].rest_amount
                = Max(0, dbInvoices[id].total_amount - SumSeq(AmountOf, StoredItems(id)))

\* C7: once the creations and updates are over, every stored invoice has
\* rest_commission = rest_amount x rest_percentage / 100 and
\* total_commission = rest_commission + the commissions of its stored line items.
C7_StoredCommissions ==
    Quiescent =>
        \A id \in DOMAIN dbInvoices :
            LET r == dbInvoices[id]
            IN  /\ r.rest_commission = r.rest_amount * r.rest_percentage
                /\ r.total_commission
                      = r.rest_commission + SumSeq(CommissionOf, StoredItems(id))

\* the categories as configured now, as (name, percentage) pairs
Configured == {NamePercentage(products[i]) : i \in 1..Len(products)}

\* C8: whatever is done to the categories after an invoice is saved, each of its
\* stored line items keeps the name and percentage it was saved with, and its
\* commission is its amount x that percentage / 100, also after the invoice is
\* edited.
C8_FrozenPercentage ==
    \A id \in DOMAIN dbItems :
        \A k \in 1..Len(dbItems[id]) :
            LET x == dbItems[id][k]
            IN  /\ id \in DOMAIN frozen
                /\ NamePercentage(x) \in frozen[id]
                /\ x.commission = x.amount * x.percentage

\* an invoice edited after its category's percentage was changed: the line item
\* has the amount typed into the dialog and a percentage other than the one the
\* category of that name has now
C8_Witness ==
    /\ toast = "updated"
    /\ \E id \in DOMAIN dbItems :
          \E k \in 1..Len(dbItems[id]) :
              /\ dbItems[id][k].amount = 2
              /\ \E c \in Configured :
                    /\ c[1] = dbItems[id][k].name
                    /\ c[2] # dbItems[id][k].percentage

\* the list is ordered by creation time, newest first
NewestFirstOrdered(list) ==
    \A i, j \in 1..Len(list) : i < j => list[i].created_at >= list[j].created_at

\* C9: when a save has reported success and its reading of the list has come
\* back, the list holds the invoice with the total, rest amount, rest percentage
\* and rest commission that were submitted and with the submitted line items of
\* amount > 0 as a set, and the list is ordered newest first.
C9_RoundTrip ==
    [][\A p \in Procs :
          (pc[p] = "f_products" /\ op[p].kind = "save" /\ pc'[p] = "idle") =>
              /\ NewestFirstOrdered(invoices')
              /\ \E i \in 1..Len(invoices') :
                    /\ invoices'[i].id = op[p].id
                    /\ invoices'[i].ncf = op[p].hdr.ncf
                    /\ invoices'[i].total_amount = op[p].hdr.total_amount
                    /\ invoices'[i].rest_amount = op[p].hdr.rest_amount
                    /\ invoices'[i].rest_percentage = op[p].hdr.rest_percentage
                    /\ invoices'[i].rest_commission = op[p].hdr.rest_commission
                    /\ Range(invoices'[i].products)
                          = Range(ProductInserts(op[p].products))]_vars

\* C10: every outcome of saveInvoice is one of two: it reports failure and the
\* store holds what it held before the call, or it reports success and the
\* store holds the invoice with every submitted line item of amount > 0.
C10_AtomicCreation ==
    [][\A p \in Procs :
          (op[p].kind = "save" /\ pc[p] \in {"s_check", "s_insert", "s_items"}) =>
              /\ pc'[p] = "idle" =>
                    /\ toast' \in {"duplicate_ncf", "save_error"}
                    /\ dbInvoices' = dbInvoices
                    /\ dbItems' = dbItems
                    /\ pc[p] # "s_items"
              /\ pc'[p] = "f_query" =>
                    /\ toast' = "saved"
                    /\ op'[p].id \in DOMAIN dbInvoices'
                    /\ dbInvoices'[op'[p].id].ncf = op[p].hdr.ncf
                    /\ op'[p].id \in DOMAIN dbItems'
                    /\ dbItems'[op'[p].id] = ProductInserts(op[p].products)]_vars

\* --------------------------------------------------------------- the sellers
\* One step of seller operation slot p; `in` holds the names and updates the
\* user may enter and the outcomes of the store calls.
SellerStep(p, in) ==
    \/ FetchSellers(p)
    \/ \E ok \in in.outcomes : FetchSellersQuery(p, ok)
    \/ \E ok \in in.outcomes : FetchSellersDefault(p, ok)
    \/ \E n \in in.names : AddSeller(p, n, in.cap)
    \/ \E ok \in in.outcomes : AddSellerInsert(p, ok)
    \/ \E id \in 1..MaxSellers, u \in in.updates : UpdateSeller(p, id, u)
    \/ \E ok \in in.outcomes : UpdateSellerWrite(p, ok)
    \/ \E id \in 1..MaxSellers : DeleteSeller(p, id)
    \/ \E ok \in in.outcomes : DeleteSellerRow(p, ok)

\* no seller operation is in flight
SellersIdle == \A p \in Procs : spc[p] = "idle"

\* the sellers table as earlier sessions may have left it: up to
\* MaxStoredSellers sellers, each active or not
StoredSellers ==
    UNION {[1..n -> {SellerRow(0, "S", b) : b \in BOOLEAN}] : n \in 0..MaxStoredSellers}

InitSellers ==
    /\ InitInvoices
    /\ InitNoReports
    /\ InitSellerHook
    /\ \E f \in StoredSellers :
          /\ dbSellers = [k \in DOMAIN f |-> SellerRow(k, f[k].name, f[k].is_active)]
          /\ nextSellerId = Len(f) + 1

SeqSellerInputs ==
    [names |-> {"T"},
     updates |-> {NameUpdate("U"), ActiveUpdate(FALSE), ActiveUpdate(TRUE)},
     outcomes |-> BOOLEAN, cap |-> MaxSellers]

\* One seller operation at a time; the selector is used between operations.
NextSellers ==
    \/ SellerStep(1, SeqSellerInputs)
    \/ \E id \in 1..MaxSellers : SellersIdle /\ SelectSeller(id)

SpecSellers == InitSellers /\ [][NextSellers]_vars

\* the stored sellers that are active
ActiveStored == {r \in {dbSellers[k] : k \in DOMAIN dbSellers} : r.is_active}
\* the active stored seller created first, if any
OldestActiveStored ==
    IF ActiveStored = {} THEN NoSeller
    ELSE CHOOSE r \in ActiveStored : \A x \in ActiveStored : r.created_at <= x.created_at

\* C19: the selection is one seller or none, and when the seller list is loaded
\* from a non-empty table while no seller is selected, the selection becomes the
\* active seller that was created first, or stays none when no seller is active.
C19_DefaultSelection ==
    [][/\ activeSeller' = NoSeller \/ activeSeller'.id \in 1..MaxSellers
       /\ \A p \in Procs :
             (/\ FetchSellersQuery(p, TRUE)
              /\ dbSellers # <<>>
              /\ activeSeller = NoSeller
              /\ sop[p].active = NoSeller) =>
                 /\ activeSeller' = OldestActiveStored
                 /\ sellers' = OldestFirst({dbSellers[k] : k \in DOMAIN dbSellers})]_vars

\* the list has been loaded and the selection is the second seller, the first
\* one being inactive
C19_Witness ==
    /\ SellersIdle
    /\ toast = "none"
    /\ Len(sellers) = 2
    /\ ~sellers[1].is_active
    /\ activeSeller = sellers[2]

\* C20: when deleteSeller(id) succeeds, the deleted seller is no longer in the
\* list; if it was the selected seller, the selection is an active seller of the
\* remaining list, or none when the remaining list has no active seller; if it
\* was not, the selection is what it was.
C20_DeleteSelection ==
    [][\A p \in Procs :
          DeleteSellerRow(p, TRUE) =>
              /\ sop[p].id \notin SellerIds(sellers')
              /\ activeSeller.id = sop[p].id =>
                    IF \E i \in 1..Len(sellers') : sellers'[i].is_active
                    THEN /\ activeSeller' \in Range(sellers')
                         /\ activeSeller'.is_active
                         /\ activeSeller'.id # sop[p].id
                    ELSE activeSeller' = NoSeller
              /\ activeSeller.id # sop[p].id => activeSeller' = activeSeller]_vars

\* the delete of the selected seller is in flight while the list holds another
\* active seller
SelectedBeingDeleted ==
    \E p \in Procs :
        /\ spc[p] = "ds_delete"
        /\ sop[p].id = activeSeller.id
        /\ \E i \in 1..Len(sellers) : sellers[i].is_active /\ sellers[i].id # sop[p].id

\* a seller has been deleted and the selection is another, active seller of the list
C20_Witness ==
    /\ toast = "seller_deleted"
    /\ SellersIdle
    /\ activeSeller # NoSeller
    /\ activeSeller \in Range(sellers)
    /\ activeSeller.is_active
    /\ activeSeller.id > 1
    /\ 1 \notin DOMAIN dbSellers

\* ------------------------------------------- invoices and sellers together
\* no invoice operation is in flight
InvoicesIdle == \A p \in Procs : pc[p] = "idle"

ErrorInputs ==
    [live |-> FALSE, cfgs |-> {<<>>}, restPcts |-> {25},
     totals |-> {1}, amounts |-> {0},
     editTotals |-> {1}, slots |-> {}, editAmounts |-> {},
     outcomes |-> BOOLEAN, failures |-> {{}}, cap |-> MaxErrorInvoices]

ErrorSellerInputs ==
    [names |-> {"T"}, updates |-> {NameUpdate("U")}, outcomes |-> BOOLEAN,
     cap |-> MaxErrorSellers]

\* One invoice operation and one seller operation at a time, on invoices
\* without allocations; every store call may fail.
NextErrors ==
    \/ StoreStep(1, ErrorInputs)
    \/ SellerStep(1, ErrorSellerInputs)
    \/ \E id \in 1..MaxSellers : SelectSeller(id)

SpecErrors == Init /\ [][NextErrors]_vars

\* the notifications of a failed store call
ErrorToasts ==
    {"save_error", "update_error", "delete_error",
     "seller_add_error", "seller_update_error", "seller_delete_error"}

\* C11: when the store call of deleteInvoice, of updateInvoice's header write, of
\* saveInvoice's invoice insert, of addSeller, of updateSeller or of deleteSeller
\* returns an error, the operation ends with its error notification and the
\* invoice list, the seller list and the selected seller are what they were;
\* the lists and the selection change only in a step in which a store call
\* succeeded, or by the selector.
C11_FailureLeavesMemory ==
    [][\A p \in Procs :
          /\ (DeleteRow(p, FALSE) \/ UpdateHeader(p, FALSE) \/ SaveInsert(p, FALSE)) =>
                /\ invoices' = invoices
                /\ sellers' = sellers
                /\ activeSeller' = activeSeller
                /\ pc'[p] = "idle"
                /\ toast' \in ErrorToasts
          /\ (\/ AddSellerInsert(p, FALSE) \/ UpdateSellerWrite(p, FALSE)
              \/ DeleteSellerRow(p, FALSE)) =>
                /\ invoices' = invoices
                /\ sellers' = sellers
                /\ activeSeller' = activeSeller
                /\ spc'[p] = "idle"
                /\ toast' \in ErrorToasts
          /\ invoices' # invoices =>
                \E q \in Procs : DeleteRow(q, TRUE) \/ FetchProducts(q, {})
          /\ (sellers' # sellers \/ activeSeller' # activeSeller) =>
                \/ \E q \in Procs :
                      \/ FetchSellersQuery(q, TRUE) \/ FetchSellersDefault(q, TRUE)
                      \/ AddSellerInsert(q, TRUE) \/ UpdateSellerWrite(q, TRUE)
                      \/ DeleteSellerRow(q, TRUE)
                \/ \E id \in 1..MaxSellers : SelectSeller(id)]_vars

\* a failed deleteSeller on the selected seller: the list and the selection stand
C11_Witness ==
    /\ toast = "seller_delete_error"
    /\ SellersIdle
    /\ Len(sellers) = 2
    /\ activeSeller \in Range(sellers)
    /\ invoices # <<>>

\* C12: while updateInvoice replaces the line items of invoice id, the line
\* items of every other invoice stay as they are, and when it reports success
\* the stored line items of invoice id are exactly the submitted products with
\* amount > 0.
C12_ItemsReplaced ==
    [][\A p \in Procs :
          (op[p].kind = "update" /\ pc[p] \in {"u_header", "u_delete", "u_items"}) =>
              /\ \A k \in DOMAIN dbItems :
                    k # op[p].id => k \in DOMAIN dbItems' /\ dbItems'[k] = dbItems[k]
              /\ (pc'[p] = "f_query" /\ toast' = "updated") =>
                    /\ op[p].id \in DOMAIN dbItems'
                    /\ dbItems'[op[p].id] = ProductInserts(op[p].products)
                    /\ \A i \in 1..Len(dbItems'[op[p].id]) :
                          dbItems'[op[p].id][i].amount > 0]_vars

\* --------------------------------------------- MonthlyBreakdown: groups
\* an entry of a group: { ncf, date, amount }
Entry(ncf, date, amount) == [ncf |-> ncf, date |-> date, amount |-> amount]

\* a rest group that takes every invoice of the month
RestIncludedAlways(inv) == TRUE
\* if (inv.rest_amount > 0)
RestIncluded(inv) == inv.rest_amount > 0

\* restBreakdown
RestBreakdown(filtered) ==
    LET kept == SelectSeqBy(RestIncluded, filtered)
    IN  [entries |-> MapSeq(LAMBDA inv : Entry(inv.ncf, EffectiveDateString(inv),
                                               inv.rest_amount), kept),
         totalAmount |-> SumSeq(LAMBDA inv : inv.rest_amount, kept),
         totalCommission |-> SumSeq(LAMBDA inv : inv.rest_commission, kept)]

RECURSIVE LineItems(_)
\* the line items the two forEach loops visit, in their order, each with the
\* NCF and the date of its invoice; if (product.amount <= 0) return
LineItems(filtered) ==
    IF filtered = <<>> THEN <<>>
    ELSE LET inv == Head(filtered)
             kept == SelectSeqBy(LAMBDA it : ~(it.amount <= 0), inv.products)
         IN  MapSeq(LAMBDA it : [ncf |-> inv.ncf, date |-> EffectiveDateString(inv),
                                 item |-> it], kept)
             \o LineItems(Tail(filtered))

\* a key that tells apart the percentages of a name
GroupKeyWithPercentage(item) == <<item.product_name, item.percentage>>
\* const key = product.product_name
GroupKey(item) == item.product_name

RECURSIVE FirstKeys(_, _)
\* the keys of the products object, in the order they are created
FirstKeys(lines, seen) ==
    IF lines = <<>> THEN <<>>
    ELSE LET key == GroupKey(Head(lines).item)
         IN  IF key \in seen THEN FirstKeys(Tail(lines), seen)
             ELSE <<key>> \o FirstKeys(Tail(lines), seen \cup {key})

\* products[key] once every line item is visited
Group(lines, key) ==
    LET mine == SelectSeqBy(LAMBDA l : GroupKey(l.item) = key, lines)
    IN  [name |-> mine[1].item.product_name,
         percentage |-> mine[1].item.percentage,
         entries |-> MapSeq(LAMBDA l : Entry(l.ncf, l.date, l.item.amount), mine),
         totalAmount |-> SumSeq(LAMBDA l : l.item.amount, mine),
         totalCommission |-> SumSeq(LAMBDA l : l.item.commission, mine)]

RECURSIVE InsertByAmount(_, _)
\* the place of a group among groups sorted by totalAmount, the largest first,
\* groups of equal totalAmount keeping their order
InsertByAmount(g, sorted) ==
    IF sorted = <<>> THEN <<g>>
    ELSE IF Head(sorted).totalAmount >= g.totalAmount
         THEN <<Head(sorted)>> \o InsertByAmount(g, Tail(sorted))
         ELSE <<g>> \o sorted
RECURSIVE SortByAmount(_)
\* sort((a, b) => b.totalAmount - a.totalAmount)
SortByAmount(groups) ==
    IF groups = <<>> THEN <<>>
    ELSE InsertByAmount(groups[Len(groups)], SortByAmount(SubSeq(groups, 1, Len(groups) - 1)))

\* productsBreakdown
ProductsBreakdown(filtered) ==
    LET lines == LineItems(filtered)
        keys == FirstKeys(lines, {})
    IN  SortByAmount([i \in 1..Len(keys) |-> Group(lines, keys[i])])

\* grandTotalCommission
GrandTotalCommission(groups, rest) ==
    SumSeq(LAMBDA g : g.totalCommission, groups) + rest.totalCommission

filteredInvoices == FilteredInvoices(reportInvoices, selectedMonth)
productsBreakdown == ProductsBreakdown(filteredInvoices)
restBreakdown == RestBreakdown(filteredInvoices)
grandTotalCommission == GrandTotalCommission(productsBreakdown, restBreakdown)

\* ------------------------------------------------- reports: specification
\* The invoices handed to MonthlyBreakdown and to Statistics.  Commissions are
\* in hundredths, as in the calculator.
ReportItem(name, percentage, amount) ==
    [product_name |-> name, percentage |-> percentage, amount |-> amount,
     commission |-> amount * percentage]
ReportInvoice(ncf, invoice_date, created_at, items, rest_amount) ==
    [ncf |-> ncf, invoice_date |-> invoice_date, created_at |-> created_at,
     products |-> items,
     total_amount |-> SumSeq(LAMBDA it : it.amount, items) + rest_amount,
     rest_amount |-> rest_amount,
     rest_percentage |-> 25,
     rest_commission |-> rest_amount * 25,
     total_commission |-> SumSeq(LAMBDA it : it.commission, items) + rest_amount * 25]

MaxReportInvoices == 2
MaxReportItems == 2
\* Invoices around the turn of a month and of a year, with and without an
\* invoice date, with and without line items and rest, one older than six
\* months and one dated after both days taken as today.
ReportPool ==
    { ReportInvoice(1, DateOnly(2024, 1, 31), Timestamp(2024, 2, 1, 1),
                    <<ReportItem("A", 10, 3), ReportItem("B", 20, 2)>>, 5),
      ReportInvoice(2, DateOnly(2024, 2, 1), Timestamp(2024, 1, 31, 1),
                    <<ReportItem("A", 15, 5)>>, 0),
      ReportInvoice(3, NoDate, Timestamp(2024, 1, 31, TicksPerDay - 1), <<>>, 1),
      ReportInvoice(4, DateOnly(2023, 12, 31), Timestamp(2024, 1, 1, 0),
                    <<ReportItem("A", 10, 2)>>, 0),
      ReportInvoice(5, NoDate, Timestamp(2024, 1, 1, 0),
                    <<ReportItem("B", 20, 2), ReportItem("A", 15, 1)>>, 0),
      ReportInvoice(6, DateOnly(2024, 5, 15), Timestamp(2024, 3, 1, 1),
                    <<ReportItem("B", 20, 1)>>, 0),
      ReportInvoice(7, DateOnly(2023, 7, 15), Timestamp(2023, 7, 15, 1), <<>>, 1),
      ReportInvoice(8, DateOnly(2024, 2, 29), Timestamp(2024, 2, 29, 1),
                    <<ReportItem("A", 10, 1), ReportItem("A", 10, 1)>>, 0) }

\* the days taken as today: the last day of January, the first day of March
Todays == {[ym |-> Ym(2024, 1), day |-> 31], [ym |-> Ym(2024, 3), day |-> 1]}

\* useState(getMonthKey(new Date())), useState(new Date()), no invoice loaded yet
InitReports ==
    /\ InitInvoices
    /\ InitNoSellers
    /\ today \in Todays
    /\ reportInvoices = <<>>
    /\ selectedMonth = getMonthKey(DateOf(today))
    /\ selectedDate = today

\* the invoices prop grows by an invoice, the newest first
InvoicesLoaded(inv) ==
    /\ Len(reportInvoices) < MaxReportInvoices
    /\ inv \notin Range(reportInvoices)
    /\ reportInvoices' = <<inv>> \o reportInvoices
    /\ UNCHANGED <<today, selectedMonth, selectedDate, invoiceVars, toast, frozen, sellerVars>>

\* MonthlyBreakdown: onValueChange={setSelectedMonth} over the offered months
SetSelectedMonth(key) ==
    /\ key \in Range(BreakdownMonths(reportInvoices, today))
    /\ selectedMonth' = key
    /\ UNCHANGED <<today, reportInvoices, selectedDate, invoiceVars, toast, frozen, sellerVars>>

\* -------------------------------------------------------------- Statistics
\* invoices.filter(inv => isWithinInterval(date, { start, end })) for the month of d
MonthInvoices(invs, d) ==
    SelectSeqBy(LAMBDA inv : IsWithinInterval(EffectiveDate(inv),
                                              StartOfMonth(DateOf(d)), EndOfMonth(DateOf(d))),
                invs)

\* a quotient a / b of the code's floating point numbers, kept as a fraction
Quotient(a, b) == [num |-> a, den |-> b]
Zero == Quotient(0, 1)
\* an average that divides whatever the count is
AvgUnguarded(total, count) == Quotient(total, count)
\* monthInvoices.length > 0 ? total / monthInvoices.length : 0
AvgPerInvoice(total, count) == IF count > 0 THEN Quotient(total, count) ELSE Zero

\* the fields of selectedMonthStats and of previousMonthStats
MonthStats(invs, d) ==
    LET monthInvoices == MonthInvoices(invs, d)
        totalCommission == SumSeq(LAMBDA inv : inv.total_commission, monthInvoices)
    IN  [totalSales |-> SumSeq(LAMBDA inv : inv.total_amount, monthInvoices),
         totalCommission |-> totalCommission,
         invoiceCount |-> Len(monthInvoices),
         avgPerInvoice |-> AvgPerInvoice(totalCommission, Len(monthInvoices))]
selectedMonthStats == MonthStats(reportInvoices, selectedDate)
previousMonthStats ==
    LET stats == MonthStats(reportInvoices, SubMonths(selectedDate, 1))
    IN  [totalSales |-> stats.totalSales, totalCommission |-> stats.totalCommission,
         invoiceCount |-> stats.invoiceCount]

\* salesChange, commissionChange, invoiceCountChange: the value of the constant
Change(current, previous) ==
    IF previous > 0 THEN Quotient((current - previous) * 100, previous) ELSE Zero

\* What the card shows of a change: nothing, or a percentage.
NoBadge == [shown |-> FALSE, value |-> Zero]
\* a badge that is rendered whatever the previous month holds
ChangeBadgeAlways(current, previous) == [shown |-> TRUE, value |-> Change(current, previous)]
\* {previousMonthStats.x > 0 && ( ... {change.toFixed(1)}% ... )}
ChangeBadge(current, previous) ==
    IF previous > 0 THEN [shown |-> TRUE, value |-> Change(current, previous)] ELSE NoBadge
salesBadge == ChangeBadge(selectedMonthStats.totalSales, previousMonthStats.totalSales)
commissionBadge ==
    ChangeBadge(selectedMonthStats.totalCommission, previousMonthStats.totalCommission)
invoiceCountBadge ==
    ChangeBadge(selectedMonthStats.invoiceCount, previousMonthStats.invoiceCount)

\* InvoiceHistory: getChangePercent returns null, or the percentage, and the
\* card is rendered when it is not null
getChangePercent(current, previous) ==
    IF previous = 0 THEN NoBadge
    ELSE [shown |-> TRUE, value |-> Quotient((current - previous) * 100, previous)]
\* totalStats and previousPeriodStats of the month key
HistoryChange(invs, key, field) ==
    getChangePercent(MonthStats(invs, [ym |-> key, day |-> 1])[field],
                     MonthStats(invs, SubMonths([ym |-> key, day |-> 1], 1))[field])

\* availableMonths: the months of the invoices and the last 6 months
RecentMonths == 6
AvailableMonths(invs, now) ==
    SortedDesc({getMonthKey(EffectiveDate(invs[i])) : i \in 1..Len(invs)}
               \cup {getMonthKey(DateOf(SubMonths(now, i))) : i \in 0..(RecentMonths - 1)})

\* availableMonths.slice(0, 6).map(...): an entry of the monthly progress
SeriesLength == 6
SeriesEntry(invs, key) ==
    LET monthInvoices == MonthInvoices(invs, [ym |-> key, day |-> 1])
    IN  [month |-> key,
         invoiceCount |-> Len(monthInvoices),
         totalSales |-> SumSeq(LAMBDA inv : inv.total_amount, monthInvoices),
         totalCommission |-> SumSeq(LAMBDA inv : inv.total_commission, monthInvoices)]
Series(invs, now) ==
    LET months == AvailableMonths(invs, now)
    IN  [i \in 1..Min(SeriesLength, Len(months)) |-> SeriesEntry(invs, months[i])]
\* the months of the entries
SeriesMonths(invs, now) ==
    LET months == AvailableMonths(invs, now)
    IN  {months[i] : i \in 1..Min(SeriesLength, Len(months))}

\* isSameMonth
IsSameMonth(a, b) == MonthOf(DateOf(a)) = MonthOf(DateOf(b))

\* navigateMonth; the next button is disabled in the month of today
NavigateMonth(direction) ==
    /\ direction = "next" => ~IsSameMonth(selectedDate, today)
    /\ LET to == IF direction = "prev" THEN SubMonths(selectedDate, 1)
                 ELSE AddMonths(selectedDate, 1)
       IN  /\ to.ym \in (FirstYm + 1)..LastYm
           /\ selectedDate' = to
    /\ UNCHANGED <<today, reportInvoices, selectedMonth, invoiceVars, toast, frozen, sellerVars>>

\* onClick={() => setSelectedDate(monthDate)} on an entry of the monthly progress
SetSelectedDate(key) ==
    /\ key \in SeriesMonths(reportInvoices, today)
    /\ selectedDate' = [ym |-> key, day |-> 1]
    /\ UNCHANGED <<today, reportInvoices, selectedMonth, invoiceVars, toast, frozen, sellerVars>>

NextReports ==
    \/ \E inv \in ReportPool : InvoicesLoaded(inv)
    \/ \E key \in Months : SetSelectedMonth(key)
    \/ \E direction \in {"prev", "next"} : NavigateMonth(direction)
    \/ \E key \in Months : SetSelectedDate(key)

SpecReports == InitReports /\ [][NextReports]_vars

\* the calendar month a date string names
NamedMonth(str) == Ym(str.y, str.m)
\* the positions of the invoices whose effective date names the month key
InMonth(invs, key) == {i \in 1..Len(invs) : NamedMonth(EffectiveDateString(invs[i])) = key}
\* a string names the last day of its month, the first day of its month
NamesLastDay(str) == str.d = DaysInMonth(NamedMonth(str))
NamesFirstDay(str) == str.d = 1

\* C13: for every month M, the invoices the aggregator keeps for M are, in
\* their order, exactly those whose effective date (the invoice date, else
\* the creation timestamp) lies between the first and the last instant of M,
\* that is whose date names month M; an invoice of the last day of M and one
\* of the first day of M+1 are never kept for the same month.
C13_MonthFilter ==
    \A key \in Months :
        LET kept == FilteredInvoices(reportInvoices, key)
        IN  /\ \A i \in 1..Len(reportInvoices) :
                  reportInvoices[i] \in Range(kept) <=> i \in InMonth(reportInvoices, key)
            /\ Len(kept) = Cardinality(InMonth(reportInvoices, key))
            /\ \A a, b \in Range(kept) :
                  ~(/\ NamesLastDay(EffectiveDateString(a))
                    /\ NamesFirstDay(EffectiveDateString(b))
                    /\ NamedMonth(EffectiveDateString(b)) = NamedMonth(EffectiveDateString(a)) + 1)

\* an invoice of the last day of January and one of the first day of February
\* are loaded, the one by its creation timestamp, and January is selected
C13_Witness ==
    /\ selectedMonth = Ym(2024, 1)
    /\ \E a, b \in Range(reportInvoices) :
          /\ a.invoice_date = NoDate /\ a.created_at = Timestamp(2024, 1, 31, TicksPerDay - 1)
          /\ b.invoice_date = DateOnly(2024, 2, 1)
          /\ FilteredInvoices(reportInvoices, selectedMonth) = <<a>>

RECURSIVE SumOver(_, _)
\* the sum of F over the members of a finite set
SumOver(F(_), set) ==
    IF set = {} THEN 0
    ELSE LET x == CHOOSE y \in set : TRUE IN F(x) + SumOver(F, set \ {x})

\* the positions of the invoices of the selected month, and of those with a rest
OfMonth == InMonth(reportInvoices, selectedMonth)
WithRest == {i \in OfMonth : reportInvoices[i].rest_amount > 0}
\* the NCFs of the entries of a group
EntryNcfs(entries) == {entries[i].ncf : i \in 1..Len(entries)}

\* C14: the rest group of the selected month has one entry {NCF, date,
\* rest_amount} for each invoice of the month with rest_amount > 0 and none
\* for any other invoice, its subtotals are the sums of those invoices'
\* rest_amount and rest_commission, and an invoice of the month with no line
\* item and rest_amount > 0 is in the rest group and in no category group.
C14_RestGroup ==
    /\ Len(restBreakdown.entries) = Cardinality(WithRest)
    /\ Range(restBreakdown.entries) =
          {Entry(reportInvoices[i].ncf, EffectiveDateString(reportInvoices[i]),
                 reportInvoices[i].rest_amount) : i \in WithRest}
    /\ restBreakdown.totalAmount = SumOver(LAMBDA i : reportInvoices[i].rest_amount, WithRest)
    /\ restBreakdown.totalCommission =
          SumOver(LAMBDA i : reportInvoices[i].rest_commission, WithRest)
    /\ \A i \in WithRest :
          reportInvoices[i].products = <<>> =>
              /\ reportInvoices[i].ncf \in EntryNcfs(restBreakdown.entries)
              /\ \A g \in 1..Len(productsBreakdown) :
                    reportInvoices[i].ncf \notin EntryNcfs(productsBreakdown[g].entries)

\* the month holds an invoice with no line item and a rest, and an invoice
\* whose total is all in its categories
C14_Witness ==
    /\ \E i, j \in OfMonth :
          /\ reportInvoices[i].products = <<>> /\ reportInvoices[i].rest_amount > 0
          /\ reportInvoices[j].products # <<>> /\ reportInvoices[j].rest_amount = 0
    /\ Len(restBreakdown.entries) = 1
    /\ Len(productsBreakdown) = 2

\* the line items of the invoices of the selected month: <<position of the
\* invoice, position of the line item>>
MonthItems ==
    {ij \in (1..MaxReportInvoices) \X (1..MaxReportItems) :
        ij[1] \in OfMonth /\ ij[2] \in 1..Len(reportInvoices[ij[1]].products)}
ItemAt(ij) == reportInvoices[ij[1]].products[ij[2]]
\* the names of the line items of the month
MonthNames == {ItemAt(ij).product_name : ij \in MonthItems}
\* the line items of the month that carry a name
Named(name) == {ij \in MonthItems : ItemAt(ij).product_name = name}

\* C15: the category groups of the selected month partition its line items by
\* name: there is one group for each name, no two groups share a name, and
\* the group of a name has one entry {NCF, date, amount} for each line item
\* of that name; its subtotal amount and commission are the sums over those
\* line items; the grand total commission is the sum of the groups' subtotal
\* commissions plus the rest subtotal commission.
C15_CategoryGroups ==
    /\ {productsBreakdown[g].name : g \in 1..Len(productsBreakdown)} = MonthNames
    /\ Len(productsBreakdown) = Cardinality(MonthNames)
    /\ \A g \in 1..Len(productsBreakdown) :
          LET group == productsBreakdown[g]
              items == Named(group.name)
          IN  /\ Len(group.entries) = Cardinality(items)
              /\ \A ij \in items :
                    Cardinality({e \in 1..Len(group.entries) :
                        group.entries[e] = Entry(reportInvoices[ij[1]].ncf,
                                                 EffectiveDateString(reportInvoices[ij[1]]),
                                                 ItemAt(ij).amount)})
                      = Cardinality({kl \in items :
                            /\ kl[1] = ij[1]
                            /\ ItemAt(kl).amount = ItemAt(ij).amount})
              /\ group.totalAmount = SumOver(LAMBDA ij : ItemAt(ij).amount, items)
              /\ group.totalCommission = SumOver(LAMBDA ij : ItemAt(ij).commission, items)
    /\ grandTotalCommission =
          SumOver(LAMBDA ij : ItemAt(ij).commission, MonthItems)
          + SumOver(LAMBDA i : reportInvoices[i].rest_commission, WithRest)
    /\ grandTotalCommission =
          SumSeq(LAMBDA g : g.totalCommission, productsBreakdown)
          + restBreakdown.totalCommission

\* two invoices of the month carry the same name at different percentages,
\* next to another name and a rest
C15_Witness ==
    /\ \E ij, kl \in MonthItems :
          /\ ij[1] # kl[1]
          /\ ItemAt(ij).product_name = ItemAt(kl).product_name
          /\ ItemAt(ij).percentage # ItemAt(kl).percentage
    /\ Len(productsBreakdown) = 2
    /\ \E g \in 1..2 : Len(productsBreakdown[g].entries) = 2
    /\ restBreakdown.totalCommission > 0

\* a shown change is the percentage (current - previous) / previous * 100
IsPercentChange(badge, current, previous) ==
    /\ badge.shown
    /\ badge.value.den # 0
    /\ badge.value.num * previous = (current - previous) * 100 * badge.value.den
\* what is reported of a change: nothing when previous is zero, else the percentage
ReportsChange(badge, current, previous) ==
    IF previous = 0 THEN badge = NoBadge ELSE IsPercentChange(badge, current, previous)

ShownMonth == getMonthKey(DateOf(selectedDate))
\* the count and the sums of the invoices whose effective date names month key
CountsMonth(stats, key) ==
    LET of == InMonth(reportInvoices, key)
    IN  /\ stats.invoiceCount = Cardinality(of)
        /\ stats.totalSales = SumOver(LAMBDA i : reportInvoices[i].total_amount, of)
        /\ stats.totalCommission = SumOver(LAMBDA i : reportInvoices[i].total_commission, of)

ConsecutiveMonths(series) ==
    \A i \in 1..(Len(series) - 1) : series[i + 1].month = series[i].month - 1
\* no invoice is dated after the month of today
NoFutureInvoice ==
    \A i \in 1..Len(reportInvoices) :
        NamedMonth(EffectiveDateString(reportInvoices[i])) <= getMonthKey(DateOf(today))

\* C17: the monthly progress always has exactly 6 entries, the newest month
\* first, that are 6 consecutive months: a month between two entries is never
\* left out, also when invoices are dated in future months or more than six
\* months ago; each entry carries the invoice count, the total amount and the
\* total commission of its month.
C17_RollingSeries ==
    LET series == Series(reportInvoices, today)
    IN  /\ Len(series) = SeriesLength
        /\ ConsecutiveMonths(series)
        /\ \A i \in 1..Len(series) : CountsMonth(series[i], series[i].month)

\* with no invoice dated after the month of today the series is the six
\* months that end with the month of today
SeriesWithoutFuture ==
    NoFutureInvoice =>
        /\ C17_RollingSeries
        /\ Series(reportInvoices, today)[1].month = getMonthKey(DateOf(today))

\* ------------------------------------------------- sellers: overlapping calls
\* Two seller operations may be in flight at once: the mount effect and a
\* refetch, two clicks in the manage dialog, a selection while a call is out.
\* the reads of the seller list and the deletions, on both slots
NextBootstrap ==
    \E p \in Procs :
        \/ FetchSellers(p)
        \/ \E ok \in BOOLEAN : FetchSellersQuery(p, ok)
        \/ \E ok \in BOOLEAN : FetchSellersDefault(p, ok)
        \/ \E id \in 1..MaxSellers : DeleteSeller(p, id)
        \/ \E ok \in BOOLEAN : DeleteSellerRow(p, ok)

SpecBootstrap == InitSellers /\ [][NextBootstrap]_vars

\* C21: fetchSellers creates a seller only when the seller set is empty, and
\* then the store holds exactly that one default seller, which is active, is
\* the whole in-memory list and is the selected seller; a read of a non-empty
\* set creates none.  Overlapping reads included.
C21_DefaultSellerOnce ==
    [][\A p \in Procs :
          /\ (spc[p] = "fs_default" /\ dbSellers' # dbSellers) =>
                /\ DOMAIN dbSellers = {}
                /\ \E k \in DOMAIN dbSellers' :
                      /\ DOMAIN dbSellers' = {k}
                      /\ dbSellers'[k].is_active
                      /\ dbSellers'[k].name = DefaultSellerName
                      /\ sellers' = <<dbSellers'[k]>>
                      /\ activeSeller' = dbSellers'[k]
          /\ (spc[p] = "fs_query" /\ spc'[p] # "fs_query") => dbSellers' = dbSellers
          /\ (spc[p] = "fs_query" /\ spc'[p] = "fs_default") => DOMAIN dbSellers = {}]_vars

\* ------------------------------------------------- CalculatorView: the forms
\* an amount field that takes whatever parseInt makes of the text
RejectsNever(raw) == FALSE
\* if (raw && !/^\d+$/.test(raw)) return, raw being the text without commas
Rejects(raw) == StripCommas(raw) # <<>> /\ ~AllDigits(StripCommas(raw))
\* parseInt(raw, 10) || 0
AmountOfText(raw) == OrZero(ParseInt(StripCommas(raw)))

\* handleTotalChange, on the text of the total field (step 2)
TotalEntry(raw) ==
    /\ step1Complete
    /\ entry' = Entered("total", 0, raw)
    /\ totalInvoice' = IF Rejects(raw) THEN totalInvoice ELSE AmountOfText(raw)
    /\ UNCHANGED <<productAmounts, cfgVars, storeVars, uiVars, sellerVars, reportVars,
                   ncfSuffix, step1Complete, lastNcfNumber, saveCall, saveDialog, dialog>>

\* handleProductAmountChange, on the text of the amount field of a category
AmountEntry(id, raw) ==
    /\ step1Complete /\ totalInvoice > 0
    /\ id \in ProductIdsOf(products)
    /\ entry' = Entered("amount", id, raw)
    /\ productAmounts' =
          IF Rejects(raw) THEN productAmounts
          ELSE [k \in DOMAIN productAmounts \cup {id} |->
                   IF k = id THEN AmountOfText(raw) ELSE productAmounts[k]]
    /\ UNCHANGED <<totalInvoice, cfgVars, storeVars, uiVars, sellerVars, reportVars,
                   ncfSuffix, step1Complete, lastNcfNumber, saveCall, saveDialog, dialog>>

\* handleNcfChange: the field stays on screen after step 1
NcfEntry(raw) ==
    /\ ncfSuffix' = NcfField(raw)
    /\ UNCHANGED <<calcVars, cfgVars, storeVars, uiVars, sellerVars, reportVars,
                   step1Complete, lastNcfNumber, saveCall, saveDialog, dialog, entry>>

\* handleContinue
Continue ==
    /\ ~step1Complete
    /\ Len(ncfSuffix) = 4
    /\ step1Complete' = TRUE
    /\ UNCHANGED <<calcVars, cfgVars, storeVars, uiVars, sellerVars, reportVars,
                   ncfSuffix, lastNcfNumber, saveCall, saveDialog, dialog, entry>>

\* Index.handleReset on the categories the handler closed over
ResetAmounts(prods) == [k \in ProductIdsOf(prods) |-> 0]

\* CalculatorView.handleReset, from the Limpiar button
ViewReset ==
    /\ step1Complete /\ totalInvoice > 0
    /\ ncfSuffix' = <<>>
    /\ step1Complete' = FALSE
    /\ totalInvoice' = 0
    /\ productAmounts' = ResetAmounts(products)
    /\ UNCHANGED <<cfgVars, storeVars, uiVars, sellerVars, reportVars,
                   lastNcfNumber, saveCall, saveDialog, dialog, entry>>

\* Index.handleSaveInvoice(ncf, invoiceDate) up to the call of saveInvoice
CallSaveInvoice(p, from, ncf, cap) ==
    LET c == calculations
    IN  /\ pc[p] = "idle"
        /\ saveCall[p].stage = "none"
        /\ nextId + Creating <= cap
        /\ pc' = [pc EXCEPT ![p] = "s_check"]
        /\ op' = [op EXCEPT ![p] =
                    [IdleOp EXCEPT !.kind = "save",
                                   !.hdr = Header(ncf, totalInvoice, c.restAmount,
                                                  restPercentage, c.restCommission,
                                                  c.totalCommission),
                                   !.products = c.breakdown]]
        /\ saveCall' = [saveCall EXCEPT ![p] =
                          [stage |-> "awaiting", from |-> from, ncf |-> ncf,
                           products |-> products]]
        /\ UNCHANGED <<calcVars, cfgVars, storeVars, invoices, toast, sellerVars, reportVars,
                       ncfSuffix, step1Complete, lastNcfNumber, saveDialog, dialog, entry>>

\* CalculatorView.handleSaveInvoice, from the Guardar Factura button of step 2
ViewSaveInvoice(p, cap) ==
    /\ step1Complete /\ totalInvoice > 0
    /\ CallSaveInvoice(p, "view", FullNcf(ncfSuffix), cap)

\* SaveInvoiceDialog: the dialog opens and takes the suggested number, last + 1
SaveDialogOpen ==
    /\ ~saveDialog.open
    /\ totalInvoice # 0
    /\ saveDialog' = [open |-> TRUE,
                      ncfSuffix |-> PadStart(Decimal(lastNcfNumber + 1), 4, "0")]
    /\ UNCHANGED <<calcVars, cfgVars, storeVars, uiVars, sellerVars, reportVars,
                   ncfSuffix, step1Complete, lastNcfNumber, saveCall, dialog, entry>>

\* SaveInvoiceDialog.handleNcfChange
SaveDialogNcfEntry(raw) ==
    /\ saveDialog.open
    /\ saveDialog' = [saveDialog EXCEPT !.ncfSuffix = NcfField(raw)]
    /\ UNCHANGED <<calcVars, cfgVars, storeVars, uiVars, sellerVars, reportVars,
                   ncfSuffix, step1Complete, lastNcfNumber, saveCall, dialog, entry>>

\* SaveInvoiceDialog.handleSubmit: nothing happens unless the suffix has 4 characters
SaveDialogSubmit(p, cap) ==
    /\ saveDialog.open
    /\ Len(saveDialog.ncfSuffix) = 4
    /\ CallSaveInvoice(p, "dialog", FullNcf(saveDialog.ncfSuffix), cap)

\* saveInvoice has returned null: handleSaveInvoice returns it, nothing is reset
SaveFailed(p) ==
    /\ saveCall[p].stage = "awaiting"
    /\ pc[p] = "idle"
    /\ saveCall' = [saveCall EXCEPT ![p] = IdleSaveCall]
    /\ UNCHANGED <<calcVars, cfgVars, storeVars, uiVars, sellerVars, reportVars,
                   ncfSuffix, step1Complete, lastNcfNumber, saveDialog, dialog, entry>>

\* saveInvoice has returned the invoice: updateLastNcfNumber is called
SaveSucceeded(p) ==
    /\ saveCall[p].stage = "awaiting"
    /\ op[p].result = "ok"
    /\ saveCall' = [saveCall EXCEPT ![p].stage = "settings"]
    /\ UNCHANGED <<calcVars, cfgVars, storeVars, uiVars, sellerVars, reportVars,
                   ncfSuffix, step1Complete, lastNcfNumber, saveDialog, dialog, entry>>

\* a handler that keeps the last used number as it is
LastNcfKept(ncf) == lastNcfNumber
\* parseInt(ncf.slice(-4), 10), kept when it is a number
LastNcfOf(ncf) ==
    IF ParseInt(SliceLast(ncf, 4)).nan THEN lastNcfNumber
    ELSE ParseInt(SliceLast(ncf, 4)).value

\* updateLastNcfNumber has returned: Index.handleReset with the categories of
\* the render that made the call, then what the caller does with the result:
\* CalculatorView.handleReset, or the success screen of the dialog and its close
SettingsWritten(p) ==
    /\ saveCall[p].stage = "settings"
    /\ lastNcfNumber' = LastNcfOf(saveCall[p].ncf)
    /\ totalInvoice' = 0
    /\ productAmounts' = ResetAmounts(saveCall[p].products)
    /\ IF saveCall[p].from = "view"
       THEN ncfSuffix' = <<>> /\ step1Complete' = FALSE /\ saveDialog' = saveDialog
       ELSE saveDialog' = ClosedSaveDialog /\ UNCHANGED <<ncfSuffix, step1Complete>>
    /\ saveCall' = [saveCall EXCEPT ![p] = IdleSaveCall]
    /\ UNCHANGED <<cfgVars, storeVars, uiVars, sellerVars, reportVars, dialog, entry>>

\* the answers to the list queries that follow a save reach the hook after
\* the caller of saveInvoice has taken its result
FetchQueryAfterReturn(p, ok) ==
    /\ saveCall[p].stage # "awaiting"
    /\ FetchQuery(p, ok)

\* ------------------------------------------- the calculator and its save flow
\* what is typed into the NCF fields and into the amount fields
NcfTexts == {<<"1", "x", "2", "3">>, <<"0", "0", "x", "0", "1", "9">>}
AmountTexts == {<<>>, <<"0", ",", "2">>, <<"1", "x">>}

\* the invoice saved before, B010000123 of amount 2, no allocation
FirstInvoiceRow == Row(1, Header(FullNcf(<<"0", "1", "2", "3">>), 2, 2, 25, 50, 50), 1)

\* the calculator with category A at 10%, after one invoice was saved and listed
InitSavedOnce ==
    /\ products = CategoryA(10)
    /\ nextProductId = 2
    /\ restPercentage = 25
    /\ totalInvoice = 0
    /\ productAmounts = ResetAmounts(CategoryA(10))
    /\ dbInvoices = Put(<<>>, 1, FirstInvoiceRow)
    /\ dbItems = Put(<<>>, 1, <<>>)
    /\ frozen = Put(<<>>, 1, {})
    /\ nextId = 2
    /\ invoices = <<WithProducts(FirstInvoiceRow, <<>>)>>
    /\ toast = "saved"
    /\ pc = [p \in Procs |-> "idle"]
    /\ op = [p \in Procs |-> IdleOp]
    /\ ncfSuffix = <<>>
    /\ step1Complete = FALSE
    /\ lastNcfNumber = 123
    /\ saveCall = [p \in Procs |-> IdleSaveCall]
    /\ saveDialog = ClosedSaveDialog
    /\ dialog = ClosedDialog
    /\ entry = NoEntry

NextForms ==
    \/ \E raw \in AmountTexts : TotalEntry(raw)
    \/ \E id \in ProductIds, raw \in AmountTexts : AmountEntry(id, raw)
    \/ \E raw \in NcfTexts : NcfEntry(raw)
    \/ Continue
    \/ ViewReset
    \/ ViewSaveInvoice(1, MaxInvoices)
    \/ SaveDialogOpen
    \/ \E raw \in NcfTexts : SaveDialogNcfEntry(raw)
    \/ SaveDialogSubmit(1, MaxInvoices)
    \/ \E ok \in BOOLEAN : SaveCheck(1, ok)
    \/ \E ok \in BOOLEAN : SaveInsert(1, ok)
    \/ \E ok \in BOOLEAN : SaveItems(1, ok)
    \/ SaveFailed(1)
    \/ SaveSucceeded(1)
    \/ SettingsWritten(1)
    \/ \E ok \in BOOLEAN : FetchQueryAfterReturn(1, ok)
    \/ FetchProducts(1, {})

InitCalculator == InitSavedOnce /\ InitNoSellers /\ InitNoReports

SpecForms == InitCalculator /\ [][NextForms]_vars

\* prefix B01000 followed by exactly four decimal digits
WellFormedNcf(ncf) ==
    /\ Len(ncf) = 10
    /\ SliceFirst(ncf, 6) = ncfPrefix
    /\ AllDigits(SliceLast(ncf, 4))

\* the suffix on screen in the form the save call came from
SubmittedSuffix(p) ==
    IF saveCall'[p].from = "view" THEN ncfSuffix ELSE saveDialog.ncfSuffix

\* C22 (format): every NCF the save flow hands to the store is B01000 followed
\* by exactly four decimal digits.
C22_NcfFormat ==
    \A p \in Procs : pc[p] = "s_check" => WellFormedNcf(op[p].hdr.ncf)

C22_NcfFormat_Witness ==
    \E k \in DOMAIN dbInvoices : k > 1 /\ dbInvoices[k].ncf = FullNcf(<<"0", "0", "0", "1">>)

\* C22: every NCF handed to the store by the save flow is B01000 followed by
\* exactly four decimal digits, and a submit whose suffix is not exactly four
\* digits long performs no store call.
C22_NcfHandedToStore ==
    [][\A p \in Procs :
          (pc[p] = "idle" /\ pc'[p] = "s_check") =>
              /\ WellFormedNcf(op'[p].hdr.ncf)
              /\ Len(SubmittedSuffix(p)) = 4]_vars

\* the number the last four characters of an NCF spell
SuffixNumber(ncf) ==
    LET n == Len(ncf)
    IN  DigitValue(ncf[n - 3]) * 1000 + DigitValue(ncf[n - 2]) * 100
        + DigitValue(ncf[n - 1]) * 10 + DigitValue(ncf[n])

\* a step of the save call of slot p
SaveCallStep(p) ==
    saveCall[p].stage # "none" /\ (pc'[p] # pc[p] \/ saveCall'[p] # saveCall[p])

\* the step on which handleSaveInvoice has finished after a successful save
SaveCallDone(p) == saveCall[p].stage = "settings" /\ saveCall'[p].stage = "none"

SaveRefused ==
    /\ toast = "duplicate_ncf"
    /\ saveCall[1].stage = "none"
    /\ totalInvoice = 2
    /\ AmountFor(productAmounts, 1) = 2
    /\ lastNcfNumber = 123

\* ------------------------------------------- EditInvoiceDialog: the form
\* the effect on open: the fields are loaded from the invoice of the list
EditOpen(i) ==
    /\ ~dialog.open
    /\ i \in 1..Len(invoices)
    /\ dialog' = [open |-> TRUE, id |-> invoices[i].id,
                  ncfSuffix |-> IF Len(invoices[i].ncf) >= 4
                                THEN SliceLast(invoices[i].ncf, 4) ELSE invoices[i].ncf,
                  totalAmount |-> invoices[i].total_amount,
                  products |-> invoices[i].products,
                  restPercentage |-> EditRestPercentage(invoices[i])]
    /\ UNCHANGED <<calcVars, cfgVars, storeVars, uiVars, sellerVars, reportVars,
                   ncfSuffix, step1Complete, lastNcfNumber, saveCall, saveDialog, entry>>

\* the dialog is closed, by the user or by a successful update
EditClose ==
    /\ dialog.open
    /\ dialog' = ClosedDialog
    /\ UNCHANGED <<calcVars, cfgVars, storeVars, uiVars, sellerVars, reportVars,
                   ncfSuffix, step1Complete, lastNcfNumber, saveCall, saveDialog, entry>>

\* onChange of the NCF field
EditNcfEntry(raw) ==
    /\ dialog.open
    /\ dialog' = [dialog EXCEPT !.ncfSuffix = NcfField(raw)]
    /\ UNCHANGED <<calcVars, cfgVars, storeVars, uiVars, sellerVars, reportVars,
                   ncfSuffix, step1Complete, lastNcfNumber, saveCall, saveDialog, entry>>

\* onChange of the total field: setTotalAmount(parseInt(raw, 10) || 0)
EditTotalEntry(raw) ==
    /\ dialog.open
    /\ entry' = Entered("edit_total", 0, raw)
    /\ dialog' = [dialog EXCEPT !.totalAmount = AmountOfText(raw)]
    /\ UNCHANGED <<calcVars, cfgVars, storeVars, uiVars, sellerVars, reportVars,
                   ncfSuffix, step1Complete, lastNcfNumber, saveCall, saveDialog>>

\* handleProductAmountChange(index, value) of the dialog
EditAmountEntry(k, raw) ==
    /\ dialog.open
    /\ k \in 1..Len(dialog.products)
    /\ entry' = Entered("edit_amount", k, raw)
    /\ dialog' = [dialog EXCEPT !.products[k].amount = AmountOfText(raw),
                                !.products[k].commission =
                                    EditedCommission(dialog.products[k], AmountOfText(raw))]
    /\ UNCHANGED <<calcVars, cfgVars, storeVars, uiVars, sellerVars, reportVars,
                   ncfSuffix, step1Complete, lastNcfNumber, saveCall, saveDialog>>

\* handleSubmit of the dialog: nothing happens unless the suffix has 4 characters
EditDialogSubmit(p) ==
    /\ dialog.open
    /\ Len(dialog.ncfSuffix) = 4
    /\ pc[p] = "idle"
    /\ op' = [op EXCEPT ![p] =
                [IdleOp EXCEPT !.kind = "update", !.id = dialog.id,
                               !.hdr = EditHeader(FullNcf(dialog.ncfSuffix),
                                                  dialog.totalAmount, dialog.products,
                                                  dialog.restPercentage),
                               !.products = dialog.products]]
    /\ pc' = [pc EXCEPT ![p] = "u_check"]
    /\ UNCHANGED <<otherVars, cfgVars, calcVars, storeVars, invoices, toast>>

\* the invoice B010000123 of amount 3: 1 on category A at 10%, the rest at 25%
ItemA(amount) ==
    [name |-> "A", amount |-> amount, percentage |-> 10,
     commission |-> LineCommission(amount, 10)]
AllocatedInvoiceRow == Row(1, Header(FullNcf(<<"0", "1", "2", "3">>), 3, 2, 25, 50, 60), 1)

\* the history with that invoice saved and listed, the dialogs closed
InitHistory ==
    /\ products = CategoryA(10)
    /\ nextProductId = 2
    /\ restPercentage = 25
    /\ totalInvoice = 0
    /\ productAmounts = ResetAmounts(CategoryA(10))
    /\ dbInvoices = Put(<<>>, 1, AllocatedInvoiceRow)
    /\ dbItems = Put(<<>>, 1, <<ItemA(1)>>)
    /\ frozen = Put(<<>>, 1, {<<"A", 10>>})
    /\ nextId = 2
    /\ invoices = <<WithProducts(AllocatedInvoiceRow, <<ItemA(1)>>)>>
    /\ toast = "saved"
    /\ pc = [p \in Procs |-> "idle"]
    /\ op = [p \in Procs |-> IdleOp]
    /\ ncfSuffix = <<>>
    /\ step1Complete = FALSE
    /\ lastNcfNumber = 123
    /\ saveCall = [p \in Procs |-> IdleSaveCall]
    /\ saveDialog = ClosedSaveDialog
    /\ dialog = ClosedDialog
    /\ entry = NoEntry

\* what is typed into the amount fields of the dialog
EditTexts == {<<"1", "x">>, <<"-", "1">>}

NextDialog ==
    \/ EditOpen(1)
    \/ EditClose
    \/ \E raw \in NcfTexts : EditNcfEntry(raw)
    \/ \E raw \in EditTexts : EditTotalEntry(raw)
    \/ \E raw \in EditTexts : EditAmountEntry(1, raw)
    \/ EditDialogSubmit(1)
    \/ UpdateCheck(1, TRUE)
    \/ UpdateHeader(1, TRUE)
    \/ UpdateDeleteItems(1, TRUE)
    \/ UpdateInsertItems(1, TRUE)
    \/ FetchQuery(1, TRUE)
    \/ FetchProducts(1, {})

InitEditDialog == InitHistory /\ InitNoSellers /\ InitNoReports

SpecDialog == InitEditDialog /\ [][NextDialog]_vars

\* the text holds a character that is neither a digit nor a thousands separator
HasNonDigit(raw) == \E i \in 1..Len(raw) : raw[i] # "," /\ ~IsDigit(raw[i])

\* C23: an amount entry that contains a non-digit character (thousands
\* separators aside) is rejected: it leaves the invoice total and the
\* allocated amounts as they were, in the calculator and in the edit dialog.
C23_NonDigitRejected ==
    [][(entry' # entry /\ HasNonDigit(entry'.raw)) =>
          /\ totalInvoice' = totalInvoice
          /\ productAmounts' = productAmounts
          /\ dialog'.totalAmount = dialog.totalAmount
          /\ dialog'.products = dialog.products]_vars

\* the calculator was handed 1x and kept its total
C23_CalculatorWitness == entry = Entered("total", 0, <<"1", "x">>) /\ totalInvoice = 2

\* ---------------------------------------------- claims on updateInvoice
\* the stored header of the invoice under update is the submitted one
HeaderWritten(p) ==
    /\ op[p].id \in DOMAIN dbInvoices
    /\ dbInvoices[op[p].id] =
          Row(op[p].id, op[p].hdr, dbInvoices[op[p].id].created_at)

\* C24: updateInvoice writes the header first and touches the line items only
\* after the header update has succeeded; when the NCF check rejects or the
\* header update fails, header and line items stay as stored; the line items
\* are only ever replaced under a header that is already the new one.
C24_HeaderBeforeItems ==
    [][\A p \in Procs : op[p].kind = "update" =>
          /\ dbItems' # dbItems => (pc[p] \in {"u_delete", "u_items"} /\ HeaderWritten(p))
          /\ pc[p] = "u_check" => (dbInvoices' = dbInvoices /\ dbItems' = dbItems)
          /\ (pc[p] \in {"u_check", "u_header"} /\ pc'[p] = "idle") =>
                (dbInvoices' = dbInvoices /\ dbItems' = dbItems)
          /\ (pc[p] # "u_delete" /\ pc'[p] = "u_delete") =>
                (pc[p] = "u_header" /\ dbItems' = dbItems /\ HeaderWritten(p)')
          /\ pc'[p] = "u_items" => pc[p] = "u_delete"]_vars

\* the header is the new one while the line items are still the old ones
C24_Witness ==
    /\ pc[1] = "u_delete"
    /\ op[1].kind = "update"
    /\ HeaderWritten(1)
    /\ dbItems[op[1].id] # ProductInserts(op[1].products)
    /\ dbItems[op[1].id] # <<>>

\* ------------------------------------------ claims on overlapping operations
\* Overlapping operations on a store that answers every call.
OverlapReliableInputs ==
    [live |-> FALSE, cfgs |-> {<<>>}, restPcts |-> {25},
     totals |-> {1}, amounts |-> {0},
     editTotals |-> {1}, slots |-> {}, editAmounts |-> {},
     outcomes |-> {TRUE}, failures |-> {{}}, cap |-> MaxInvoices]

NextOverlapReliable == \E p \in Procs : StoreStep(p, OverlapReliableInputs)

SpecOverlapReliable == Init /\ [][NextOverlapReliable]_vars

\* the invoices of the store as fetchInvoices would list them
StoredInvoices ==
    LET rows == NewestFirst({dbInvoices[k] : k \in DOMAIN dbInvoices})
    IN  [i \in 1..Len(rows) |-> WithProducts(rows[i], dbItems[rows[i].id])]

\* C25: once every invoice operation has completed, the in-memory list is
\* exactly the invoices of the store, also when operations overlapped (two
\* deleteInvoice calls, or a deleteInvoice and the refetch of a save or update).
C25_ListIsStore == InvoicesIdle => invoices = StoredInvoices

\* two invoices were saved and one of them deleted, all calls answered
AfterDelete ==
    /\ InvoicesIdle
    /\ nextId = 3
    /\ Cardinality(DOMAIN dbInvoices) = 1
    /\ toast = "deleted"

\* ------------------------------------------------ claims on the edit dialog
\* the update of slot p submits the NCF, the total and the line items as stored
Unedited(p) ==
    /\ op[p].id \in DOMAIN dbInvoices
    /\ op[p].hdr.ncf = dbInvoices[op[p].id].ncf
    /\ op[p].hdr.total_amount = dbInvoices[op[p].id].total_amount
    /\ op[p].products = dbItems[op[p].id]

\* the header update of slot p has been accepted on this step
HeaderUpdated(p) == pc[p] = "u_header" /\ pc'[p] = "u_delete"

\* the stored invoice has a rest percentage, and its rest is what its total
\* leaves over its stored line items
Regular(id) ==
    /\ dbInvoices[id].rest_percentage # 0
    /\ dbInvoices[id].rest_amount =
          dbInvoices[id].total_amount - SumSeq(AmountOf, dbItems[id])

\* C26: an edit submitted with nothing changed leaves the invoice as it was:
\* NCF, total_amount, rest_amount, rest_percentage, rest_commission and
\* total_commission, also for invoices with rest_percentage 0 and for invoices
\* whose allocations exceed the total.
C26_UnchangedEditIsNoOp ==
    [][\A p \in Procs :
          (HeaderUpdated(p) /\ Unedited(p)) =>
              dbInvoices'[op[p].id] = dbInvoices[op[p].id]]_vars

\* the same for invoices with a rest percentage whose rest agrees with their line items
UnchangedEditOfRegular ==
    [][\A p \in Procs :
          (HeaderUpdated(p) /\ Unedited(p) /\ Regular(op[p].id)) =>
              dbInvoices'[op[p].id] = dbInvoices[op[p].id]]_vars

\* an unchanged edit of a regular invoice with a line item is being written
UnchangedEditWritten ==
    /\ pc[1] = "u_delete"
    /\ Unedited(1)
    /\ Regular(op[1].id)
    /\ dbItems[op[1].id] # <<>>

\* -------------------------------------- claims on categories and allocations
\* the allocations of the categories that are configured now
ConfiguredSum ==
    SumFn([id \in ProductIdsOf(products) |-> AmountFor(productAmounts, id)],
          ProductIdsOf(products))

\* C27: after any sequence of category additions and deletions and allocation
\* edits the rest amount is max(0, T - sum of the allocations of the categories
\* currently configured); an amount entered for a category that was deleted
\* since no longer reduces the rest.
C27_RestOverConfigured == calculations.restAmount = Max(0, totalInvoice - ConfiguredSum)

\* the rest amount as long as no allocated category has been deleted
RestWithoutDeletions ==
    DOMAIN productAmounts \subseteq ProductIdsOf(products) =>
        calculations.restAmount = Max(0, totalInvoice - ConfiguredSum)

\* an allocation is on screen and reduces the rest
AllocationReducesRest ==
    /\ ProductIdsOf(products) # {}
    /\ DOMAIN productAmounts \subseteq ProductIdsOf(products)
    /\ ConfiguredSum > 0
    /\ calculations.restAmount > 0

\* ------------------------------------- claims on the reports over the store
\* the line item of a listed invoice as MonthlyBreakdown reads it
ListedItem(it) ==
    [product_name |-> it.name, percentage |-> it.percentage, amount |-> it.amount,
     commission |-> it.commission]
\* the first invoice is dated on the last day of January 2024, the others on
\* the first of February
ListedDate(inv) == IF inv.id = 1 THEN DateOnly(2024, 1, 31) ELSE DateOnly(2024, 2, 1)
\* the invoice of the list as the reports receive it
Listed(inv) ==
    [ncf |-> inv.ncf, invoice_date |-> ListedDate(inv),
     created_at |-> Timestamp(2024, 2, 1, 0),
     products |-> MapSeq(ListedItem, inv.products),
     total_amount |-> inv.total_amount, rest_amount |-> inv.rest_amount,
     rest_percentage |-> inv.rest_percentage, rest_commission |-> inv.rest_commission,
     total_commission |-> inv.total_commission]
ListedInvoices == MapSeq(Listed, invoices)
ListedMonths == {Ym(2024, 1), Ym(2024, 2), Ym(2024, 3)}

\* the grand total commission of MonthlyBreakdown for a month of the list
BreakdownCommission(key) ==
    LET filtered == FilteredInvoices(ListedInvoices, key)
    IN  GrandTotalCommission(ProductsBreakdown(filtered), RestBreakdown(filtered))
\* the total commission of Statistics for the same month
StatisticsCommission(key) ==
    MonthStats(ListedInvoices, [ym |-> key, day |-> 1]).totalCommission

\* C28: for every month and every invoice collection reachable through
\* create, update and delete, the grand total commission of the breakdown
\* equals the total commission the statistics show for that month.
C28_GrandTotalIsMonthTotal ==
    \A key \in ListedMonths : BreakdownCommission(key) = StatisticsCommission(key)

\* every listed invoice has a positive rest or none and the commission of its
\* header is that of its listed line items and its rest
ConsistentList ==
    \A i \in 1..Len(invoices) :
        /\ invoices[i].rest_amount >= 0
        /\ \A k \in 1..Len(invoices[i].products) : invoices[i].products[k].amount > 0
        /\ invoices[i].total_commission =
              SumSeq(CommissionOf, invoices[i].products) + invoices[i].rest_commission

\* the two reports agree on consistent lists
GrandTotalOfConsistent == ConsistentList => C28_GrandTotalIsMonthTotal

\* two invoices with line items and rest are listed, one in each month
TwoMonthsListed ==
    /\ Len(invoices) = 2
    /\ ConsistentList
    /\ \A i \in 1..2 : invoices[i].products # <<>> /\ invoices[i].rest_amount > 0

\* ---------------------------------------------- claims on the selected seller
\* C29: in every reachable state the selected seller is none or a seller that
\* is in the in-memory list and active, also after updateSeller has deactivated
\* or renamed the selected seller, after selectSeller, addSeller and a refetch.
C29_SelectionListedAndActive ==
    \/ activeSeller = NoSeller
    \/ \E i \in 1..Len(sellers) :
          sellers[i].id = activeSeller.id /\ sellers[i].is_active

\* the selection is none or a seller of the list, as listed
SelectionListed ==
    \/ activeSeller = NoSeller
    \/ \E i \in 1..Len(sellers) : sellers[i] = activeSeller

\* the selected seller was renamed
RenamedSelection == activeSeller.name = "U" /\ activeSeller.is_active

====
